---- MODULE Spec2Model ----
(***************************************************************************)
(* A model of dev-feed's three engines:                                    *)
(*   - the article content resolution and caching pipeline                 *)
(*     (src/lib/youtube.ts: fetchArticleContent and what it calls; the     *)
(*     stages of one resolution are in fetchArticleContentUncached),       *)
(*   - the TTL caches with bounded size (server, client and feed caches),  *)
(*   - the feed ranking and deduplication engine (src/unnamed/part_005),   *)
(* and of the components around them: the rendering transform, the inbox   *)
(* limits, the reader pane, the feed-parse cache, the client cache in      *)
(* front of the server cache, FeedProvider, and ArticleList's delete/undo. *)
(* Each part has its own specification over its own group of variables;    *)
(* the other groups are left unchanged by its actions.                     *)
(***************************************************************************)
EXTENDS Integers, Sequences, FiniteSets, TLC

VARIABLES
    \* ---- server side of the resolution pipeline (Spec) ----
    now,                    \* Date.now(), in milliseconds
    ticks,                  \* how many times the clock has advanced
    articleResultCache,     \* Map<string, TimedCacheEntry>, in insertion order
    articleResultInFlight,  \* Map<string, Promise>: key -> resolution id, 0 = absent
    resolutions,            \* the promise chains started by fetchArticleContent
    callers,                \* the concurrent invocations of fetchArticleContent
    overlap,                \* history: pairs of callers whose calls for a key overlapped
    \* ---- one TTL cache under arbitrary reads and writes (SpecCacheOps) ----
    opKind,                 \* which cache: "server", "client" or "feed"
    opCache,                \* the Map, in insertion order
    opNow,                  \* Date.now()
    opCount,                \* operations done so far
    opLast,                 \* history: the last operation
    opBefore,               \* history: the Map before the last operation
    \* ---- one call of rankAndFilterArticlesForDeveloperFeed (SpecRank) ----
    rkArticles,             \* the articles argument
    rkMaxTotal,             \* options.maxTotal (Undefined when not given)
    rkOut,                  \* the returned articles
    rkPc,                   \* "input" while the arguments are chosen, then "done"
    \* ---- one call of fetchArticleContentUncached (SpecUncached) ----
    uncachedPc,             \* the await the call is suspended at, or "idle"/"done"
    articleUrl,             \* the url argument
    sourceFeedUrl,          \* the sourceFeedUrl argument ("" when not given)
    elapsedMs,              \* time since the call started
    timeoutId,              \* the 15 s timer: "unset", "armed", "fired", "cleared"
    initialAttempt,         \* fetchWithTrailingSlashRetry: outcome of the first fetch
    primaryResponse,        \* the response fetchWithTrailingSlashRetry returned
    failure,                \* which branch asked for the fallback, with the error caught
    abortedRequest,         \* history: the pending request the timer aborted
    retryCount,             \* history: fetch calls made for the trailing-slash URL
    parsedFeeds,            \* history: outcome of parseFeedWithCache per candidate
    fallbackReturn,         \* getFallbackFromFeed: "notCalled", "pending", "null", "content"
    uncachedResult,         \* the FetchArticleResult returned
    \* ---- the client cache module, article-content-client-cache.ts (SpecClient) ----
    articleCache,           \* Map<string, TimedCacheEntry>, in insertion order
    clientInFlight,         \* inFlight: Map<string, Promise>, key -> who started it
    pendingCalls,           \* loadArticleContent calls whose promise is pending
    settledCalls,           \* history: the calls the last step settled, and how
    clientNow,              \* Date.now() in the browser
    \* ---- one call of scoreArticleForDeveloperFeed (SpecScore) ----
    scArticle,              \* the article argument
    scSource,               \* the source argument
    scParts,                \* history: the six components that were summed
    scScore,                \* the returned score, in units of 1/ScoreScale
    scPc,                   \* "input" while the arguments are chosen, then "done"
    \* ---- one evaluation of ArticleContent's contentNodes, article-content.tsx (SpecContent) ----
    html,                   \* the html prop, as the node structure its markup spells out
    domParser,              \* whether DOMParser is defined where the component renders
    root,                   \* history: document.body's childNodes after moveQuoteOwnerInsideBlockquote
    contentNodes,           \* the ReactNode[] the memo returned
    contentPc,              \* "input" while the props are chosen, then "done"
    \* ---- one call of applyDeveloperInboxLimits (SpecInbox) ----
    ibArticles,             \* the rankedArticles argument
    ibIncludeRead,          \* options.includeRead
    ibUnreadTotalLimit,     \* options.unreadTotalLimit (Undefined when not given)
    ibOut,                  \* the returned articles
    ibPc,                   \* "input" while the arguments are chosen, then "done"
    \* ---- ArticleReader's content state across article changes (SpecReader) ----
    rdArticle,              \* props.article.link ("" while no reader is mounted)
    rdResolved,             \* the resolvedContent state: NoResolved or {link, result}
    rdEffects,              \* the runs of the load effect: their link, stale flag and promise state
    rdProduced,             \* history: the links a resolution has produced a result for
    \* ---- parseFeedWithCache (src/lib/youtube.ts) ----
    fpNow,                  \* Date.now() of the feed cache
    feedCache,              \* feedCache: Map of feed URL to timed entry
    feedInFlight,           \* feedInFlight: Map of feed URL to parse request
    fpRequests,             \* every parser.parseURL request ever started
    fpCalls,                \* every parseFeedWithCache call and what it returned
    fpTicks,                \* clock steps taken
    \* ---- the client cache in front of the server cache (SpecLayers) ----
    lyNow,                  \* Date.now(), one clock for browser and server
    lyServerCache,          \* articleResultCache of the server
    lyServerRunning,        \* whether fetchArticleContentUncached is running (articleResultInFlight)
    lyClientCache,          \* articleCache of the reader's session
    lyClientInFlight,       \* whether the session's inFlight map holds the key
    lyCall,                 \* the session's server action call: none, request, waiting or response
    lyResponse,             \* the result travelling back to the session
    lyReturned,             \* the last result loadArticleContent gave the reader
    lyTicks,                \* clock steps taken
    \* ---- FeedProvider's custom feeds (SpecProvider) ----
    pvHydrated,             \* isHydrated of the custom-feed storage
    pvCustomFeeds,          \* customFeeds: the ids of the custom sources, in order
    pvCustomArticles,       \* customArticles: the source of each article and the fetch that brought it
    pvIsLoadingCustom,      \* isLoadingCustom
    pvRuns,                 \* the runs of the fetch effect that started a fetch: sources, cancelled flag, phase
    pvOps,                  \* feed operations done
    \* ---- ArticleList's delete and undo (SpecList) ----
    alNow,                  \* Date.now() (in the time unit of the ranking engine)
    alDeleted,              \* deletedArticlesStorage: the deleted keys, newest first
    alRead,                 \* readArticlesStorage: entries key -> readAt in insertion order
    alReadLater,            \* readLaterStorage: entries key -> bookmark in insertion order
    alPending,              \* pendingDeleteUndo
    alBefore,               \* history: the three stores as they were before the pending delete
    alPc,                   \* idle, deleted (a delete is pending) or undone (undo has just run)
    alOps                   \* deletes and clock steps done

serverVars == <<now, ticks, articleResultCache, articleResultInFlight,
                resolutions, callers, overlap>>

cacheOpsVars == <<opKind, opCache, opNow, opCount, opLast, opBefore>>

rankVars == <<rkArticles, rkMaxTotal, rkOut, rkPc>>

uncachedVars == <<uncachedPc, articleUrl, sourceFeedUrl, elapsedMs, timeoutId,
                  initialAttempt, primaryResponse, failure, abortedRequest,
                  retryCount, parsedFeeds, fallbackReturn, uncachedResult>>

clientVars == <<articleCache, clientInFlight, pendingCalls, settledCalls, clientNow>>

scoreVars == <<scArticle, scSource, scParts, scScore, scPc>>

contentVars == <<html, domParser, root, contentNodes, contentPc>>

inboxVars == <<ibArticles, ibIncludeRead, ibUnreadTotalLimit, ibOut, ibPc>>

readerVars == <<rdArticle, rdResolved, rdEffects, rdProduced>>

feedVars == <<fpNow, feedCache, feedInFlight, fpRequests, fpCalls, fpTicks>>

layerVars == <<lyNow, lyServerCache, lyServerRunning, lyClientCache, lyClientInFlight, lyCall, lyResponse, lyReturned, lyTicks>>

providerVars == <<pvHydrated, pvCustomFeeds, pvCustomArticles, pvIsLoadingCustom, pvRuns, pvOps>>

listVars == <<alNow, alDeleted, alRead, alReadLater, alPending, alBefore, alPc, alOps>>

vars == <<serverVars, cacheOpsVars, rankVars, uncachedVars, clientVars,
         scoreVars,
         contentVars,
         inboxVars,
         readerVars,
         feedVars,
         layerVars,
         providerVars,
         listVars>>

----------------------------------------------------------------------------
(* Bounds of the model *)

MaxTicks == 1
MaxResolutions == 3
MaxOps == 3
MaxFresh == 2
MaxArticles == 3
MaxWaits == 3
MaxNodes == 2
MaxSelections == 3

(* Program constants (milliseconds, entries) *)

ARTICLE_RESULT_CACHE_TTL_MS == 5 * 60 * 1000
ARTICLE_ERROR_CACHE_TTL_MS == 30 * 1000
ARTICLE_RESULT_CACHE_MAX_ENTRIES == 300
FEED_CACHE_TTL_MS == 5 * 60 * 1000
FEED_CACHE_MAX_ENTRIES == 20
CLIENT_ARTICLE_CACHE_TTL_MS == 5 * 60 * 1000
CLIENT_ARTICLE_ERROR_CACHE_TTL_MS == 30 * 1000
CLIENT_ARTICLE_CACHE_MAX_ENTRIES == 300

(* Inputs *)

Keys == {"k1", "k2"}
Callers == {"a", "b"}
\* The clock advances in steps that land exactly on and next to both TTLs.
TickSteps == {10000, 30000, 300000}
Rids == 1..MaxResolutions

NoPromise == 0
NoValue == [kind |-> "none", rid |-> 0]

----------------------------------------------------------------------------
(* A Map is a sequence of entries in insertion order. *)

IndexOf(cache, key) ==
    IF \E i \in 1..Len(cache) : cache[i].key = key
    THEN CHOOSE i \in 1..Len(cache) : cache[i].key = key
    ELSE 0

MapHas(cache, key) == IndexOf(cache, key) # 0

MapDelete(cache, key) ==
    SelectSeq(cache, LAMBDA e : e.key # key)

\* getCachedValue: the value read (NoValue for null) and the Map after the read,
\* from which an expired entry has been deleted.
getCachedValueLate(cache, key, t) ==
    IF ~MapHas(cache, key) THEN [value |-> NoValue, cache |-> cache]
    ELSE IF cache[IndexOf(cache, key)].expiresAt < t
         THEN [value |-> NoValue, cache |-> MapDelete(cache, key)]
         ELSE [value |-> cache[IndexOf(cache, key)].value, cache |-> cache]

getCachedValue(cache, key, t) ==
    IF ~MapHas(cache, key) THEN [value |-> NoValue, cache |-> cache]
    ELSE IF cache[IndexOf(cache, key)].expiresAt <= t
         THEN [value |-> NoValue, cache |-> MapDelete(cache, key)]
         ELSE [value |-> cache[IndexOf(cache, key)].value, cache |-> cache]

RECURSIVE evictNewest(_, _)
evictNewest(cache, maxEntries) ==
    IF Len(cache) > maxEntries
    THEN evictNewest(SubSeq(cache, 1, Len(cache) - 1), maxEntries)
    ELSE cache

\* while (cache.size > maxEntries) delete cache.keys().next().value
RECURSIVE evictOldest(_, _)
evictOldest(cache, maxEntries) ==
    IF Len(cache) > maxEntries THEN evictOldest(Tail(cache), maxEntries) ELSE cache

setCachedValueSkipped(cache, key, value, ttlMs, maxEntries, t) == cache

setCachedValue(cache, key, value, ttlMs, maxEntries, t) ==
    evictOldest(
        Append(MapDelete(cache, key),
               [key |-> key, value |-> value, expiresAt |-> t + ttlMs, writtenAt |-> t]),
        maxEntries)

IsError(value) == value.kind = "error"

resultTtlUniform(value) == ARTICLE_RESULT_CACHE_TTL_MS

resultTtl(value) ==
    IF IsError(value) THEN ARTICLE_ERROR_CACHE_TTL_MS ELSE ARTICLE_RESULT_CACHE_TTL_MS

inFlightGetNever(inFlight, key) == NoPromise

inFlightGet(inFlight, key) == inFlight[key]

inFlightSetForgotten(inFlight, key, rid) == inFlight

inFlightSet(inFlight, key, rid) == [inFlight EXCEPT ![key] = rid]

----------------------------------------------------------------------------
(* fetchArticleContent and its promise chain *)

IdleCaller ==
    [state |-> "idle", key |-> "k1", promise |-> NoPromise, result |-> NoValue,
     sawInFlight |-> NoPromise, hit |-> FALSE, hitAge |-> 0, sawExpired |-> FALSE]

UnusedResolution == [key |-> "k1", stage |-> "unused", result |-> NoValue]

UsedRids == {r \in Rids : resolutions[r].stage # "unused"}

\* Promise reactions that are queued: the then and finally callbacks of a settled
\* chain, and the resumption of a caller whose awaited promise has resolved.
MicrotasksPending ==
    \/ \E r \in Rids : resolutions[r].stage \in {"settled", "cached"}
    \/ \E c \in Callers : /\ callers[c].state = "awaiting"
                          /\ resolutions[callers[c].promise].stage = "done"

\* The callers whose call for `key` has not returned to them yet.
Concurrent(key) ==
    {d \in Callers : callers[d].state = "awaiting" /\ callers[d].key = key}

WithoutCaller(pairs, c) == {p \in pairs : p[1] # c /\ p[2] # c}

\* One call of fetchArticleContent up to its return of a value or a promise:
\* no await separates the cache read, the in-flight read and the in-flight write.
FetchArticleContent(c, key) ==
    /\ callers[c].state # "awaiting"
    /\ LET read == getCachedValue(articleResultCache, key, now)
           cached == read.value
           pruned == read.cache
           expired == /\ MapHas(articleResultCache, key)
                      /\ articleResultCache[IndexOf(articleResultCache, key)].expiresAt <= now
           pending == inFlightGet(articleResultInFlight, key)
           rid == Cardinality(UsedRids) + 1
           base == [IdleCaller EXCEPT !.key = key,
                                      !.sawInFlight = articleResultInFlight[key],
                                      !.sawExpired = expired]
       IN  /\ overlap' = WithoutCaller(overlap, c) \cup {<<c, d>> : d \in Concurrent(key) \ {c}}
           /\ IF cached # NoValue
              THEN /\ callers' = [callers EXCEPT ![c] =
                          [base EXCEPT !.state = "returned", !.result = cached, !.hit = TRUE,
                                       !.hitAge = now - articleResultCache[
                                                     IndexOf(articleResultCache, key)].writtenAt]]
                   /\ articleResultCache' = pruned
                   /\ UNCHANGED <<articleResultInFlight, resolutions>>
              ELSE IF pending # NoPromise
              THEN /\ callers' = [callers EXCEPT ![c] =
                          [base EXCEPT !.state = "awaiting", !.promise = pending]]
                   /\ articleResultCache' = pruned
                   /\ UNCHANGED <<articleResultInFlight, resolutions>>
              ELSE /\ rid \in Rids
                   /\ resolutions' = [resolutions EXCEPT ![rid] =
                          [key |-> key, stage |-> "running", result |-> NoValue]]
                   /\ articleResultInFlight' = inFlightSet(articleResultInFlight, key, rid)
                   /\ callers' = [callers EXCEPT ![c] =
                          [base EXCEPT !.state = "awaiting", !.promise = rid]]
                   /\ articleResultCache' = pruned
    /\ UNCHANGED <<now, ticks>>
    /\ UNCHANGED <<cacheOpsVars, rankVars, uncachedVars, clientVars, scoreVars, contentVars, inboxVars, readerVars, feedVars, layerVars, providerVars, listVars>>

\* fetchArticleContentUncached resolves: with content (extracted or from the feed
\* fallback) or with {error}; it never rejects.
UncachedSettles(r, kind) ==
    /\ resolutions[r].stage = "running"
    /\ resolutions' = [resolutions EXCEPT ![r].stage = "settled",
                                          ![r].result = [kind |-> kind, rid |-> r]]
    /\ UNCHANGED <<now, ticks, articleResultCache, articleResultInFlight, callers, overlap>>
    /\ UNCHANGED <<cacheOpsVars, rankVars, uncachedVars, clientVars, scoreVars, contentVars, inboxVars, readerVars, feedVars, layerVars, providerVars, listVars>>

\* .then((result) => { setCachedValue(...); return result; })
ThenCallback(r) ==
    /\ resolutions[r].stage = "settled"
    /\ articleResultCache' =
          setCachedValue(articleResultCache, resolutions[r].key, resolutions[r].result,
                         resultTtl(resolutions[r].result),
                         ARTICLE_RESULT_CACHE_MAX_ENTRIES, now)
    /\ resolutions' = [resolutions EXCEPT ![r].stage = "cached"]
    /\ UNCHANGED <<now, ticks, articleResultInFlight, callers, overlap>>
    /\ UNCHANGED <<cacheOpsVars, rankVars, uncachedVars, clientVars, scoreVars, contentVars, inboxVars, readerVars, feedVars, layerVars, providerVars, listVars>>

\* .finally(() => { articleResultInFlight.delete(cacheKey); })
FinallyCallback(r) ==
    /\ resolutions[r].stage = "cached"
    /\ articleResultInFlight' = [articleResultInFlight EXCEPT ![resolutions[r].key] = NoPromise]
    /\ resolutions' = [resolutions EXCEPT ![r].stage = "done"]
    /\ UNCHANGED <<now, ticks, articleResultCache, callers, overlap>>
    /\ UNCHANGED <<cacheOpsVars, rankVars, uncachedVars, clientVars, scoreVars, contentVars, inboxVars, readerVars, feedVars, layerVars, providerVars, listVars>>

\* A caller awaiting the request promise resumes with its value.
Deliver(c) ==
    /\ callers[c].state = "awaiting"
    /\ resolutions[callers[c].promise].stage = "done"
    /\ callers' = [callers EXCEPT ![c].state = "returned",
                                  ![c].result = resolutions[callers[c].promise].result]
    /\ UNCHANGED <<now, ticks, articleResultCache, articleResultInFlight, resolutions, overlap>>
    /\ UNCHANGED <<cacheOpsVars, rankVars, uncachedVars, clientVars, scoreVars, contentVars, inboxVars, readerVars, feedVars, layerVars, providerVars, listVars>>

\* Time passes between tasks; the then/finally callbacks of a settled promise run
\* as consecutive microtasks, before the event loop takes the next timer or I/O.
Tick(d) ==
    /\ ticks < MaxTicks
    /\ ~MicrotasksPending
    /\ now' = now + d
    /\ ticks' = ticks + 1
    /\ UNCHANGED <<articleResultCache, articleResultInFlight, resolutions, callers, overlap>>
    /\ UNCHANGED <<cacheOpsVars, rankVars, uncachedVars, clientVars, scoreVars, contentVars, inboxVars, readerVars, feedVars, layerVars, providerVars, listVars>>

ServerInit ==
    /\ now = 0
    /\ ticks = 0
    /\ articleResultCache = <<>>
    /\ articleResultInFlight = [k \in Keys |-> NoPromise]
    /\ resolutions = [r \in Rids |-> UnusedResolution]
    /\ callers = [c \in Callers |-> IdleCaller]
    /\ overlap = {}

CacheOpsIdle ==
    /\ opKind = "server"
    /\ opCache = <<>>
    /\ opNow = 0
    /\ opCount = 0
    /\ opLast = [op |-> "none", key |-> 0]
    /\ opBefore = <<>>

RankIdle ==
    /\ rkArticles = <<>>
    /\ rkMaxTotal = 0 - 1
    /\ rkOut = <<>>
    /\ rkPc = "input"

NoUrl == [valid |-> FALSE, host |-> <<>>, path |-> <<>>, slash |-> FALSE, tracked |-> FALSE]
NoAttempt == [kind |-> "none", status |-> 0]
NoFailure == [stage |-> "none", error |-> "none", status |-> 0]
NoResult == [kind |-> "none", contentMode |-> "", reason |-> "", status |-> 0, via |-> ""]

UncachedIdle ==
    /\ uncachedPc = "idle"
    /\ articleUrl = NoUrl
    /\ sourceFeedUrl = ""
    /\ elapsedMs = 0
    /\ timeoutId = "unset"
    /\ initialAttempt = NoAttempt
    /\ primaryResponse = NoAttempt
    /\ failure = NoFailure
    /\ abortedRequest = "none"
    /\ retryCount = 0
    /\ parsedFeeds = <<>>
    /\ fallbackReturn = "notCalled"
    /\ uncachedResult = NoResult

FilteredArticles == <<"a1", "a2", "a3", "a4", "a5">>

ClientIdle ==
    /\ articleCache = <<>>
    /\ clientInFlight = [k \in {FilteredArticles[i] : i \in 1..Len(FilteredArticles)} |-> "none"]
    /\ pendingCalls = {}
    /\ settledCalls = {}
    /\ clientNow = 0

NoArticle == [id |-> "", sourceId |-> "", link |-> "", title |-> "", publishedAt |-> 0,
              catInInclude |-> FALSE, catInExclude |-> FALSE, posHits |-> 0, negHits |-> 0,
              titleNoiseHits |-> 0, readingMinutes |-> 0]
NoSource == [id |-> "", tier |-> "", lookbackDays |-> 0, priority |-> 0,
             hasInclude |-> FALSE, hasExclude |-> FALSE, trend |-> ""]
NoParts == [recency |-> 0, priority |-> 0, category |-> 0, readTime |-> 0,
            trend |-> 0, noise |-> 0]

ScoreIdle ==
    /\ scArticle = NoArticle
    /\ scSource = NoSource
    /\ scParts = NoParts
    /\ scScore = 0
    /\ scPc = "input"

ContentIdle ==
    /\ html = <<>>
    /\ domParser = TRUE
    /\ root = <<>>
    /\ contentNodes = <<>>
    /\ contentPc = "input"

InboxIdle ==
    /\ ibArticles = <<>>
    /\ ibIncludeRead = FALSE
    /\ ibUnreadTotalLimit = 0 - 1
    /\ ibOut = <<>>
    /\ ibPc = "input"

NoResolved == [link |-> "", for |-> "", kind |-> "null"]

ReaderIdle ==
    /\ rdArticle = ""
    /\ rdResolved = NoResolved
    /\ rdEffects = <<>>
    /\ rdProduced = {}

FeedIdle ==
    /\ fpNow = 0
    /\ feedCache = <<>>
    /\ feedInFlight = <<>>
    /\ fpRequests = <<>>
    /\ fpCalls = {}
    /\ fpTicks = 0

LayerIdle ==
    /\ lyNow = 0
    /\ lyServerCache = <<>>
    /\ lyServerRunning = FALSE
    /\ lyClientCache = <<>>
    /\ lyClientInFlight = FALSE
    /\ lyCall = "none"
    /\ lyResponse = NoValue
    /\ lyReturned = NoValue
    /\ lyTicks = 0

ProviderIdle ==
    /\ pvHydrated = FALSE
    /\ pvCustomFeeds = <<>>
    /\ pvCustomArticles = {}
    /\ pvIsLoadingCustom = FALSE
    /\ pvRuns = <<>>
    /\ pvOps = 0

ListIdle ==
    /\ alNow = 0
    /\ alDeleted = <<>>
    /\ alRead = <<>>
    /\ alReadLater = <<>>
    /\ alPending = [key |-> 0]
    /\ alBefore = [key |-> 0]
    /\ alPc = "idle"
    /\ alOps = 0

Init ==
    /\ ServerInit
    /\ CacheOpsIdle
    /\ RankIdle
    /\ UncachedIdle
    /\ ClientIdle
    /\ ScoreIdle
    /\ ContentIdle
    /\ InboxIdle
    /\ ReaderIdle
    /\ FeedIdle
    /\ LayerIdle
    /\ ProviderIdle
    /\ ListIdle

Next ==
    \/ \E c \in Callers, k \in Keys : FetchArticleContent(c, k)
    \/ \E r \in Rids, kind \in {"content", "error"} : UncachedSettles(r, kind)
    \/ \E r \in Rids : ThenCallback(r)
    \/ \E r \in Rids : FinallyCallback(r)
    \/ \E c \in Callers : Deliver(c)
    \/ \E d \in TickSteps : Tick(d)

Spec == Init /\ [][Next]_vars

\* The request behind a pending call goes away: nothing reads the value the
\* call returns.  fetchArticleContent has no cancellation; the promise chain it
\* registered in articleResultInFlight is untouched.
Abandon(c) ==
    /\ callers[c].state = "awaiting"
    /\ callers' = [callers EXCEPT ![c].state = "abandoned"]
    /\ UNCHANGED <<now, ticks, articleResultCache, articleResultInFlight, resolutions, overlap>>
    /\ UNCHANGED <<cacheOpsVars, rankVars, uncachedVars, clientVars, scoreVars, contentVars, inboxVars, readerVars, feedVars, layerVars, providerVars, listVars>>

LiveNext ==
    \/ \E c \in Callers, k \in Keys : FetchArticleContent(c, k)
    \/ \E r \in Rids, kind \in {"content", "error"} : UncachedSettles(r, kind)
    \/ \E r \in Rids : ThenCallback(r)
    \/ \E r \in Rids : FinallyCallback(r)
    \/ \E c \in Callers : Deliver(c)
    \/ \E c \in Callers : Abandon(c)

\* Every network call of fetchArticleContentUncached returns or times out, so a
\* running resolution settles; the callbacks of a settled promise are run.
SpecLive ==
    /\ Init
    /\ [][LiveNext]_vars
    /\ \A r \in Rids :
          /\ WF_vars(\E kind \in {"content", "error"} : UncachedSettles(r, kind))
          /\ WF_vars(ThenCallback(r))
          /\ WF_vars(FinallyCallback(r))

----------------------------------------------------------------------------
(* The three TTL caches under arbitrary sequences of reads and writes.       *)
(* The caches of the client module are its own copies of the two helpers.    *)

clientGetCachedValue(cache, key, t) ==
    IF ~MapHas(cache, key) THEN [value |-> NoValue, cache |-> cache]
    ELSE IF cache[IndexOf(cache, key)].expiresAt <= t
         THEN [value |-> NoValue, cache |-> MapDelete(cache, key)]
         ELSE [value |-> cache[IndexOf(cache, key)].value, cache |-> cache]

RECURSIVE clientEvictOldest(_)
clientEvictOldest(cache) ==
    IF Len(cache) > CLIENT_ARTICLE_CACHE_MAX_ENTRIES
    THEN clientEvictOldest(Tail(cache))
    ELSE cache

clientSetCachedValue(cache, key, value, t) ==
    clientEvictOldest(
        Append(MapDelete(cache, key),
               [key |-> key, value |-> value,
                expiresAt |-> t + (IF IsError(value) THEN CLIENT_ARTICLE_ERROR_CACHE_TTL_MS
                                                     ELSE CLIENT_ARTICLE_CACHE_TTL_MS),
                writtenAt |-> t]))

OpKinds == {"server", "client", "feed"}

MaxEntriesOf(kind) ==
    CASE kind = "server" -> ARTICLE_RESULT_CACHE_MAX_ENTRIES
      [] kind = "client" -> CLIENT_ARTICLE_CACHE_MAX_ENTRIES
      [] kind = "feed" -> FEED_CACHE_MAX_ENTRIES

\* What the cache of `kind` holds: article results, or parsed feeds (never errors).
OpValueKinds(kind) == IF kind = "feed" THEN {"content"} ELSE {"content", "error"}

\* The write each cache's owner performs.
OpWrite(kind, cache, key, value, t) ==
    CASE kind = "server" ->
            setCachedValue(cache, key, value, resultTtl(value),
                           ARTICLE_RESULT_CACHE_MAX_ENTRIES, t)
      [] kind = "client" -> clientSetCachedValue(cache, key, value, t)
      [] kind = "feed" ->
            setCachedValue(cache, key, value, FEED_CACHE_TTL_MS, FEED_CACHE_MAX_ENTRIES, t)

OpRead(kind, cache, key, t) ==
    IF kind = "client" THEN clientGetCachedValue(cache, key, t)
    ELSE getCachedValue(cache, key, t)

\* Keys are numbered in the order of their first insertion: 1 is the oldest entry
\* of a filled cache, maxEntries the newest, anything above is not cached yet.
OpKeys(kind) ==
    {1, MaxEntriesOf(kind)} \cup
    (MaxEntriesOf(kind) + 1 .. MaxEntriesOf(kind) + MaxFresh)

\* A cache that n distinct keys were written to at time 0, successes and failures
\* alternating.
FilledCache(kind, n) ==
    [i \in 1..n |->
        LET value == [kind |-> IF kind # "feed" /\ i % 2 = 1 THEN "error" ELSE "content",
                      rid |-> 0]
        IN  [key |-> i, value |-> value,
             expiresAt |-> IF kind = "feed" THEN FEED_CACHE_TTL_MS ELSE resultTtl(value),
             writtenAt |-> 0]]

OpSet(key, valueKind) ==
    /\ opCount < MaxOps
    /\ key \in OpKeys(opKind)
    /\ valueKind \in OpValueKinds(opKind)
    /\ opCache' = OpWrite(opKind, opCache, key, [kind |-> valueKind, rid |-> 0], opNow)
    /\ opBefore' = opCache
    /\ opLast' = [op |-> "set", key |-> key]
    /\ opCount' = opCount + 1
    /\ UNCHANGED <<opKind, opNow>>
    /\ UNCHANGED <<serverVars, rankVars, uncachedVars, clientVars, scoreVars, contentVars, inboxVars, readerVars, feedVars, layerVars, providerVars, listVars>>

OpGet(key) ==
    /\ opCount < MaxOps
    /\ key \in OpKeys(opKind)
    /\ opCache' = OpRead(opKind, opCache, key, opNow).cache
    /\ opBefore' = opCache
    /\ opLast' = [op |-> "get", key |-> key]
    /\ opCount' = opCount + 1
    /\ UNCHANGED <<opKind, opNow>>
    /\ UNCHANGED <<serverVars, rankVars, uncachedVars, clientVars, scoreVars, contentVars, inboxVars, readerVars, feedVars, layerVars, providerVars, listVars>>

OpTick(d) ==
    /\ opCount < MaxOps
    /\ opNow' = opNow + d
    /\ opBefore' = opCache
    /\ opLast' = [op |-> "tick", key |-> 0]
    /\ opCount' = opCount + 1
    /\ UNCHANGED <<opKind, opCache>>
    /\ UNCHANGED <<serverVars, rankVars, uncachedVars, clientVars, scoreVars, contentVars, inboxVars, readerVars, feedVars, layerVars, providerVars, listVars>>

CacheOpsInit ==
    /\ ServerInit
    /\ RankIdle
    /\ UncachedIdle
    /\ ClientIdle
    /\ ScoreIdle
    /\ ContentIdle
    /\ InboxIdle
    /\ ReaderIdle
    /\ FeedIdle
    /\ LayerIdle
    /\ ProviderIdle
    /\ ListIdle
    /\ opKind \in OpKinds
    /\ \E n \in {MaxEntriesOf(opKind) - 1, MaxEntriesOf(opKind)} :
          opCache = FilledCache(opKind, n)
    /\ opNow = 0
    /\ opCount = 0
    /\ opLast = [op |-> "none", key |-> 0]
    /\ opBefore = <<>>

CacheOpsNext ==
    \/ \E key \in 1..(ARTICLE_RESULT_CACHE_MAX_ENTRIES + MaxFresh),
          valueKind \in {"content", "error"} : OpSet(key, valueKind)
    \/ \E key \in 1..(ARTICLE_RESULT_CACHE_MAX_ENTRIES + MaxFresh) : OpGet(key)
    \/ \E d \in {30 * 1000, 5 * 60 * 1000} : OpTick(d)

SpecCacheOps == CacheOpsInit /\ [][CacheOpsNext]_vars

----------------------------------------------------------------------------
(* The feed ranking and deduplication engine.                                *)
(*                                                                           *)
(* Strings are modelled by what the engine derives from them: an article's   *)
(* link is its normalizeComparableUrl value ("" when the URL does not parse), *)
(* its title its normalizeText value, its publishedAt the milliseconds       *)
(* new Date(publishedAt).getTime() yields (NaN when the date does not parse), *)
(* and the keyword and category tests of the scoring functions are the hit   *)
(* counts and match flags they compute.  Times are counted in hours instead  *)
(* of milliseconds (TLC's integers have 32 bits), so DATE_MS_PER_DAY is 24.  *)
(* Scores are exact rationals, held as integers in units of 1/ScoreScale.    *)

DATE_MS_PER_DAY == 24
FEED_LOOKBACK_DAYS == 7
ScoreScale == 3 * 4 * 5 * 7
Undefined == -1
NaN == -1
Null == -1

NowMs == 100 * DATE_MS_PER_DAY

Min(a, b) == IF a < b THEN a ELSE b
Max(a, b) == IF a > b THEN a ELSE b

clampNone(value, min, max) == value

clamp(value, min, max) == Min(max, Max(min, value))

\* The sources argument: a core source configured with a 14-day lookback and an
\* explore source with a 3-day lookback.
Sources ==
    << [id |-> "core", tier |-> "core", lookbackDays |-> 14, priority |-> Undefined,
        hasInclude |-> FALSE, hasExclude |-> FALSE, trend |-> "none"],
       [id |-> "explore", tier |-> "explore", lookbackDays |-> 3, priority |-> Undefined,
        hasInclude |-> FALSE, hasExclude |-> FALSE, trend |-> "none"] >>

DaysAgo(days) == NowMs - days * DATE_MS_PER_DAY

Art(sourceId, link, title, id, publishedAt, posHits) ==
    [id |-> id, sourceId |-> sourceId, link |-> link, title |-> title,
     publishedAt |-> publishedAt,
     catInInclude |-> FALSE, catInExclude |-> FALSE, posHits |-> posHits, negHits |-> 0,
     titleNoiseHits |-> 0, readingMinutes |-> 0]

\* Published tomorrow, now, 3, 8 and 20 days ago, or with a date that does not parse.
PubTimes == {DaysAgo(d) : d \in {-1, 0, 3, 8, 20}} \cup {NaN}

ArticlePool ==
    {Art(s, "u1", "t1", "i1", d, 0) : s \in {"core", "explore"}, d \in PubTimes}
    \cup {Art("core", k[1], k[2], k[3], d, 0) :
             k \in {<<"u2", "t1", "i1">>, <<"", "t1", "i1">>, <<"", "", "i1">>},
             d \in {DaysAgo(0), DaysAgo(3)}}
    \cup {Art("ghost", "u1", "t1", "i1", DaysAgo(0), 0),
          Art("explore", "u1", "t1", "i1", DaysAgo(0), 5)}

DEFAULT_SOURCE_PRIORITY_BY_TIER(tier) ==
    CASE tier = "core" -> 16
      [] tier = "normal" -> 10
      [] tier = "explore" -> 7

resolveSourceTier(source) == IF source.tier = "" THEN "normal" ELSE source.tier

resolveLookbackDays(source) ==
    IF source.lookbackDays # Undefined /\ source.lookbackDays > 0
    THEN Min(source.lookbackDays, FEED_LOOKBACK_DAYS)
    ELSE FEED_LOOKBACK_DAYS

resolveSourcePriorityScore(source) ==
    IF source.priority # Undefined
    THEN clamp(source.priority, 0, 20)
    ELSE DEFAULT_SOURCE_PRIORITY_BY_TIER(resolveSourceTier(source))

\* ageInDays, in time units instead of days; Null when the date does not parse.
ageInDays(publishedAt, nowMs) ==
    IF publishedAt = NaN THEN Null ELSE nowMs - publishedAt

categoryMatchScore(article, source) ==
    LET include == IF source.hasInclude
                   THEN (IF article.catInInclude THEN 15 ELSE -8)
                   ELSE 0
        exclude == IF source.hasExclude /\ article.catInExclude THEN -10 ELSE 0
    IN  clamp(include + exclude + Min(10, article.posHits * 2)
                - Min(10, article.negHits * 3), -10, 15)

readTimeFitScore(article) ==
    LET minutes == article.readingMinutes
    IN  IF minutes = 0 THEN 0
        ELSE IF minutes >= 4 /\ minutes <= 12 THEN 8
        ELSE IF minutes >= 2 /\ minutes <= 20 THEN 4
        ELSE IF minutes < 2 THEN -4
        ELSE IF minutes > 30 THEN -6
        ELSE -2

trendBoostScore(source) ==
    CASE source.trend = "trending" -> 15
      [] source.trend = "github" -> 6
      [] OTHER -> 0

titleNoisePenalty(article, source) == -Min(20, article.titleNoiseHits * 5)

\* In units of 1/ScoreScale.
recency(article, source, nowMs) ==
    LET age == ageInDays(article.publishedAt, nowMs)
        lookbackMs == resolveLookbackDays(source) * DATE_MS_PER_DAY
    IN  clamp(40 * ScoreScale - (40 * ScoreScale * age) \div lookbackMs,
              0, 40 * ScoreScale)

scoreArticleForDeveloperFeed(article, source, nowMs) ==
    IF article.publishedAt = NaN THEN -999 * ScoreScale
        ELSE clamp(recency(article, source, nowMs)
                     + ScoreScale * (resolveSourcePriorityScore(source)
                                     + categoryMatchScore(article, source)
                                     + readTimeFitScore(article)
                                     + trendBoostScore(source)
                                     + titleNoisePenalty(article, source)),
                   0, 100 * ScoreScale)

shouldKeepAlways(article, source, nowMs) == TRUE

shouldKeepByLookback(article, source, nowMs) ==
    /\ article.publishedAt # NaN
    /\ ageInDays(article.publishedAt, nowMs) >= 0

HasSource(sources, id) == \E i \in 1..Len(sources) : sources[i].id = id

\* new Map(sources.map(...)).get(id): of two sources with one id the last one.
SourceById(sources, id) ==
    sources[CHOOSE i \in 1..Len(sources) :
               /\ sources[i].id = id
               /\ \A j \in (i + 1)..Len(sources) : sources[j].id # id]

dedupeKey(article) ==
    IF article.link # "" THEN <<"url", article.link>>
    ELSE IF article.title # "" THEN <<"title", article.title>>
    ELSE <<"id", article.id>>

\* Whether a candidate takes the place of the one already held for its key.
replacesNever(candidate, existing) == FALSE

replaces(candidate, existing) ==
    \/ candidate.score > existing.score
    \/ /\ candidate.score = existing.score
       /\ candidate.publishedAtMs > existing.publishedAtMs

\* The loop of buildRankedCandidates from article i on; deduped is dedupedByKey,
\* a Map in insertion order (a set on a key it holds keeps the key's place).
RECURSIVE dedupeFrom(_, _, _, _, _)
dedupeFrom(articles, sources, nowMs, i, deduped) ==
    IF i > Len(articles) THEN deduped
    ELSE
      LET article == articles[i]
      IN  IF ~HasSource(sources, article.sourceId)
          THEN dedupeFrom(articles, sources, nowMs, i + 1, deduped)
          ELSE
            LET source == SourceById(sources, article.sourceId)
            IN  IF ~shouldKeepByLookback(article, source, nowMs)
                THEN dedupeFrom(articles, sources, nowMs, i + 1, deduped)
                ELSE IF article.publishedAt = NaN
                THEN dedupeFrom(articles, sources, nowMs, i + 1, deduped)
                ELSE
                  LET candidate ==
                        [key |-> dedupeKey(article), article |-> article, source |-> source,
                         score |-> scoreArticleForDeveloperFeed(article, source, nowMs),
                         publishedAtMs |-> article.publishedAt]
                      at == IndexOf(deduped, candidate.key)
                  IN  IF at = 0
                      THEN dedupeFrom(articles, sources, nowMs, i + 1,
                                      Append(deduped, candidate))
                      ELSE IF replaces(candidate, deduped[at])
                      THEN dedupeFrom(articles, sources, nowMs, i + 1,
                                      [deduped EXCEPT ![at] = candidate])
                      ELSE dedupeFrom(articles, sources, nowMs, i + 1, deduped)

\* The comparator of the final sort: negative when a goes before b.
compareCandidatesTimeOnly(a, b) == b.publishedAtMs - a.publishedAtMs

compareCandidates(a, b) ==
    IF b.publishedAtMs # a.publishedAtMs
    THEN b.publishedAtMs - a.publishedAtMs
    ELSE b.score - a.score

\* A sort that is not stable: x goes in front of its equals.
RECURSIVE insertSortedBeforeEquals(_, _)
insertSortedBeforeEquals(sorted, x) ==
    IF sorted = <<>> THEN <<x>>
    ELSE IF compareCandidates(Head(sorted), x) < 0
    THEN <<Head(sorted)>> \o insertSortedBeforeEquals(Tail(sorted), x)
    ELSE <<x>> \o sorted

\* Array.prototype.sort is stable: x goes behind everything that does not have
\* to come after it.
RECURSIVE insertSorted(_, _)
insertSorted(sorted, x) ==
    IF sorted = <<>> THEN <<x>>
    ELSE IF compareCandidates(Head(sorted), x) <= 0
    THEN <<Head(sorted)>> \o insertSorted(Tail(sorted), x)
    ELSE <<x>> \o sorted

RECURSIVE sortCandidates(_)
sortCandidates(candidates) ==
    IF candidates = <<>> THEN <<>>
    ELSE insertSorted(sortCandidates(SubSeq(candidates, 1, Len(candidates) - 1)),
                      candidates[Len(candidates)])

buildRankedCandidates(articles, sources, nowMs) ==
    sortCandidates(dedupeFrom(articles, sources, nowMs, 1, <<>>))

rankAndFilterTruncatingFirst(articles, sources, nowMs, maxTotal) ==
    buildRankedCandidates(
        IF maxTotal # Undefined /\ maxTotal >= 0
        THEN SubSeq(articles, 1, Min(maxTotal, Len(articles)))
        ELSE articles,
        sources, nowMs)

rankAndFilterArticlesForDeveloperFeed(articles, sources, nowMs, maxTotal) ==
    LET ranked == buildRankedCandidates(articles, sources, nowMs)
        rankedArticles == [i \in 1..Len(ranked) |-> ranked[i].article]
    IN  IF maxTotal # Undefined /\ maxTotal >= 0
        THEN SubSeq(rankedArticles, 1, Min(maxTotal, Len(rankedArticles)))
        ELSE rankedArticles

AddArticle(article) ==
    /\ rkPc = "input"
    /\ Len(rkArticles) < MaxArticles
    /\ rkArticles' = Append(rkArticles, article)
    /\ UNCHANGED <<rkMaxTotal, rkOut, rkPc>>
    /\ UNCHANGED <<serverVars, cacheOpsVars, uncachedVars, clientVars, scoreVars, contentVars, inboxVars, readerVars, feedVars, layerVars, providerVars, listVars>>

Rank(maxTotal) ==
    /\ rkPc = "input"
    /\ rkOut' = rankAndFilterArticlesForDeveloperFeed(rkArticles, Sources, NowMs, maxTotal)
    /\ rkMaxTotal' = maxTotal
    /\ rkPc' = "done"
    /\ UNCHANGED rkArticles
    /\ UNCHANGED <<serverVars, cacheOpsVars, uncachedVars, clientVars, scoreVars, contentVars, inboxVars, readerVars, feedVars, layerVars, providerVars, listVars>>

RankInit ==
    /\ ServerInit
    /\ CacheOpsIdle
    /\ UncachedIdle
    /\ ClientIdle
    /\ RankIdle
    /\ ScoreIdle
    /\ ContentIdle
    /\ InboxIdle
    /\ ReaderIdle
    /\ FeedIdle
    /\ LayerIdle
    /\ ProviderIdle
    /\ ListIdle

RankNext ==
    \/ \E article \in ArticlePool : AddArticle(article)
    \/ \E maxTotal \in {Undefined, 2} : Rank(maxTotal)

SpecRank == RankInit /\ [][RankNext]_vars

----------------------------------------------------------------------------
(* One call of scoreArticleForDeveloperFeed on an arbitrary article and      *)
(* source (SpecScore).  The arguments vary what the six components read: the *)
(* date, the category and keyword hits, the reading time, and the source's   *)
(* tier, lookback, priority, category lists and name.                        *)

ScoreArticles ==
    {[id |-> "i1", sourceId |-> "s", link |-> "u1", title |-> "t1",
      publishedAt |-> d, catInInclude |-> inc, catInExclude |-> exc,
      posHits |-> h[1], negHits |-> h[2], titleNoiseHits |-> h[3],
      readingMinutes |-> m] :
        d \in PubTimes, inc \in BOOLEAN, exc \in BOOLEAN,
        h \in {<<0, 0, 0>>, <<6, 0, 0>>, <<1, 1, 1>>, <<0, 4, 5>>},
        m \in {0, 1, 5, 15, 25, 40}}

ScoreSources ==
    {[id |-> "s", tier |-> t, lookbackDays |-> l, priority |-> p,
      hasInclude |-> c[1], hasExclude |-> c[2], trend |-> b] :
        t \in {"", "core"}, l \in {Undefined, 3}, p \in {Undefined, -5, 25},
        c \in {<<FALSE, FALSE>>, <<TRUE, FALSE>>, <<TRUE, TRUE>>},
        b \in {"none", "github", "trending"}}

ChooseScoreInput ==
    /\ scPc = "input"
    /\ scArticle = NoArticle
    /\ \E article \in ScoreArticles, source \in ScoreSources :
          /\ scArticle' = article
          /\ scSource' = source
    /\ UNCHANGED <<scParts, scScore, scPc>>
    /\ UNCHANGED <<serverVars, cacheOpsVars, rankVars, uncachedVars, clientVars, contentVars, inboxVars, readerVars, feedVars, layerVars, providerVars, listVars>>

Score ==
    /\ scPc = "input"
    /\ scArticle # NoArticle
    /\ scScore' = scoreArticleForDeveloperFeed(scArticle, scSource, NowMs)
    /\ scParts' = IF scArticle.publishedAt = NaN THEN NoParts
                  ELSE [recency |-> recency(scArticle, scSource, NowMs),
                        priority |-> resolveSourcePriorityScore(scSource),
                        category |-> categoryMatchScore(scArticle, scSource),
                        readTime |-> readTimeFitScore(scArticle),
                        trend |-> trendBoostScore(scSource),
                        noise |-> titleNoisePenalty(scArticle, scSource)]
    /\ scPc' = "done"
    /\ UNCHANGED <<scArticle, scSource>>
    /\ UNCHANGED <<serverVars, cacheOpsVars, rankVars, uncachedVars, clientVars, contentVars, inboxVars, readerVars, feedVars, layerVars, providerVars, listVars>>

ScoreInit ==
    /\ ServerInit
    /\ CacheOpsIdle
    /\ RankIdle
    /\ UncachedIdle
    /\ ClientIdle
    /\ ScoreIdle
    /\ ContentIdle
    /\ InboxIdle
    /\ ReaderIdle
    /\ FeedIdle
    /\ LayerIdle
    /\ ProviderIdle
    /\ ListIdle

ScoreNext ==
    \/ ChooseScoreInput
    \/ Score

SpecScore == ScoreInit /\ [][ScoreNext]_vars

----------------------------------------------------------------------------
(* One resolution: fetchArticleContentUncached.                              *)
(*                                                                           *)
(* A URL is the record of what new URL() parses out of the string: host      *)
(* labels, path segments, whether the pathname ends in "/", and whether it   *)
(* carries a hash or tracking parameters (utm_*, fbclid, gclid, ref,         *)
(* source).  The string that does not parse is NoUrl.  No modelled path ends *)
(* in a file extension.  A content field of a feed item is "none" (absent or *)
(* blank), "short" or "long" prose, or "script" (markup that the sanitizer   *)
(* removes entirely).  Each await of the call is a position of uncachedPc;   *)
(* the network answers by an action, and the 15 s timer by TimerFires.       *)
(***************************************************************************)

FETCH_TIMEOUT_MS == 15000
TimeStep == FETCH_TIMEOUT_MS \div 2

Url(host, path, slash, tracked) ==
    [valid |-> TRUE, host |-> host, path |-> path, slash |-> slash, tracked |-> tracked]

EndsWith(hostname, suffix) ==
    /\ Len(hostname) > Len(suffix)
    /\ SubSeq(hostname, Len(hostname) - Len(suffix) + 1, Len(hostname)) = suffix

normalizeHost(hostname) ==
    IF Len(hostname) > 0 /\ hostname[1] = "www" THEN Tail(hostname) ELSE hostname

\* Null (NoUrl) when the string does not parse; otherwise the origin, the
\* pathname without trailing slashes ("/" stays "/") and the cleaned query.
normalizeComparableUrl(rawUrl) ==
    IF ~rawUrl.valid
    THEN NoUrl
    ELSE [rawUrl EXCEPT !.slash = (rawUrl.path = <<>>), !.tracked = FALSE]

toTrailingSlashUrl(rawUrl) ==
    IF ~rawUrl.valid \/ rawUrl.slash
    THEN NoUrl
    ELSE [rawUrl EXCEPT !.slash = TRUE]

normalizeArticleUrlForFetch(rawUrl) ==
    IF ~rawUrl.valid
    THEN rawUrl
    ELSE LET host == normalizeHost(rawUrl.host)
             isOpenAiHost == host = <<"openai", "com">> \/ EndsWith(host, <<"openai", "com">>)
         IN  IF /\ isOpenAiHost
                /\ Len(rawUrl.path) >= 2 /\ rawUrl.path[1] = "index"
                /\ ~rawUrl.slash
             THEN [rawUrl EXCEPT !.slash = TRUE]
             ELSE rawUrl

\* Two of the configured sources (src/config/feeds.ts).
feedSources ==
    << [feedUrl |-> "https://openai.com/news/rss.xml",
        website |-> Url(<<"openai", "com">>, <<"news">>, FALSE, FALSE)],
       [feedUrl |-> "https://blog.cloudflare.com/rss",
        website |-> Url(<<"blog", "cloudflare", "com">>, <<>>, TRUE, FALSE)] >>

SetAdd(candidates, feedUrl) ==
    IF \E i \in 1..Len(candidates) : candidates[i] = feedUrl
    THEN candidates
    ELSE Append(candidates, feedUrl)

RECURSIVE addSameDomainSources(_, _, _)
addSameDomainSources(candidates, articleHost, i) ==
    IF i > Len(feedSources)
    THEN candidates
    ELSE LET sourceHost == normalizeHost(feedSources[i].website.host)
             sameDomain == \/ articleHost = sourceHost
                           \/ EndsWith(articleHost, sourceHost)
                           \/ EndsWith(sourceHost, articleHost)
         IN  addSameDomainSources(
                 IF sameDomain THEN SetAdd(candidates, feedSources[i].feedUrl)
                               ELSE candidates,
                 articleHost, i + 1)

getFeedCandidates(url, feedUrl) ==
    LET given == IF feedUrl # "" THEN <<feedUrl>> ELSE <<>>
    IN  IF ~url.valid
        THEN given
        ELSE addSameDomainSources(given, normalizeHost(url.host), 1)

ContentLength(field) ==
    CASE field = "none" -> 0
      [] field = "short" -> 50
      [] field = "script" -> 60
      [] field = "long" -> 300

resolveFeedItemContentEncodedOnly(item) ==
    [rawContent |->
        IF item.encoded # "none" THEN item.encoded
        ELSE IF item.content # "none" THEN item.content
        ELSE IF item.summary # "none" THEN item.summary
        ELSE item.contentSnippet,
     contentMode |-> IF item.encoded # "none" THEN "full" ELSE "summary"]

resolveFeedItemContent(item) ==
    LET encodedContent == item.encoded
        contentField == item.content
        summaryField == item.summary
        snippetField == item.contentSnippet
    IN  [rawContent |->
            IF encodedContent # "none" THEN encodedContent
            ELSE IF contentField # "none" THEN contentField
            ELSE IF summaryField # "none" THEN summaryField
            ELSE snippetField,
         contentMode |->
            IF \/ encodedContent # "none"
               \/ (contentField # "none" /\ snippetField = "none")
               \/ /\ contentField # "none"
                  /\ snippetField # "none"
                  /\ ContentLength(contentField) > ContentLength(snippetField) + 200
            THEN "full"
            ELSE "summary"]

\* sanitizeArticleHtml and the strips that follow it, on a content field.
sanitizeArticleHtml(rawHtml) == IF rawHtml = "script" THEN "none" ELSE rawHtml

matchesTargetLinkOnly(item, target) == normalizeComparableUrl(item.link) = target

matchesTarget(item, target) ==
    \/ normalizeComparableUrl(item.link) = target
    \/ normalizeComparableUrl(item.guid) = target

\* Array.prototype.find: the index of the first matching item, 0 when none.
findMatchedItem(items, target) ==
    LET matching == {i \in 1..Len(items) : matchesTarget(items[i], target)}
    IN  IF matching = {} THEN 0
        ELSE CHOOSE i \in matching : \A j \in matching : i <= j

NoContent == [found |-> FALSE, contentMode |-> ""]

\* One iteration of the loop of getFallbackFromFeed, for a feed as
\* parseFeedWithCache delivered it: NoContent stands for "continue".
fallbackFromFeed(feed, target) ==
    IF feed.parse = "throws"
    THEN NoContent
    ELSE LET matched == findMatchedItem(feed.items, target)
         IN  IF matched = 0
             THEN NoContent
             ELSE LET resolved == resolveFeedItemContent(feed.items[matched])
                  IN  IF resolved.rawContent = "none"
                      THEN NoContent
                      ELSE IF sanitizeArticleHtml(resolved.rawContent) = "none"
                      THEN NoContent
                      ELSE [found |-> TRUE, contentMode |-> resolved.contentMode]

isAbortErrorAlways(error) == TRUE

isAbortError(error) == error = "AbortError"

Success(contentMode, via) ==
    [kind |-> "success", contentMode |-> contentMode, reason |-> "", status |-> 0,
     via |-> via]

Error(reason, status) ==
    [kind |-> "error", contentMode |-> "", reason |-> reason, status |-> status,
     via |-> ""]

\* The {error} returned by the branch that asked for the fallback.
errorResult(f) ==
    CASE f.stage = "http" -> Error("Failed to fetch article (HTTP status)", f.status)
      [] f.stage = "extract" -> Error("Could not extract article content", 0)
      [] f.stage = "throw" ->
            IF isAbortError(f.error)
            THEN Error("Request timed out", 0)
            ELSE Error("An unexpected error occurred while fetching the article", 0)

beginFailureWithoutFallback(f, url, feedUrl) ==
    [pc |-> "done", fallbackReturn |-> "notCalled", result |-> errorResult(f)]

\* A failing branch calls getFallbackFromFeed: it returns null at once when the
\* target does not normalize or there is no candidate, else awaits the first feed.
beginFailure(f, url, feedUrl) ==
    IF ~normalizeComparableUrl(url).valid \/ Len(getFeedCandidates(url, feedUrl)) = 0
    THEN [pc |-> "done", fallbackReturn |-> "null", result |-> errorResult(f)]
    ELSE [pc |-> "fallback", fallbackReturn |-> "pending", result |-> NoResult]

Failure(stage, error, status) == [stage |-> stage, error |-> error, status |-> status]

IsOk(attempt) == attempt.kind = "response" /\ attempt.status >= 200 /\ attempt.status <= 299

(* Inputs *)

ArticleUrls ==
    { Url(<<"blog", "cloudflare", "com">>, <<"post">>, FALSE, FALSE),
      Url(<<"blog", "cloudflare", "com">>, <<"post">>, TRUE, FALSE),
      Url(<<"www", "openai", "com">>, <<"index", "post">>, FALSE, TRUE),
      Url(<<"example", "org">>, <<"post">>, FALSE, FALSE),
      NoUrl }

SourceFeedUrls == {"", "https://blog.cloudflare.com/rss", "https://example.org/feed"}

FetchOutcomes ==
    { [kind |-> "response", status |-> 200], [kind |-> "response", status |-> 404],
      [kind |-> "response", status |-> 500], [kind |-> "throws", status |-> 0] }

Item(link, guid, encoded, content, summary, contentSnippet) ==
    [link |-> link, guid |-> guid, encoded |-> encoded, content |-> content,
     summary |-> summary, contentSnippet |-> contentSnippet]

\* The feeds a candidate may deliver for an article at url: items that link to
\* it with tracking parameters, with the other trailing-slash form, by guid
\* only, with blank content, with markup-only content, with an encoded field
\* shorter than the snippet, with a content field alone or much longer than the
\* snippet, and items of other posts.
FeedPool(url) ==
    LET tracked == [url EXCEPT !.tracked = TRUE]
        slashed == [url EXCEPT !.slash = ~url.slash]
        elsewhere == [url EXCEPT !.path = <<"other">>]
        full == Item(tracked, NoUrl, "long", "none", "none", "short")
        summary == Item(slashed, NoUrl, "none", "short", "none", "short")
        byGuid == Item(elsewhere, url, "none", "none", "short", "none")
        blank == Item(url, NoUrl, "none", "none", "none", "none")
        script == Item(url, NoUrl, "none", "script", "none", "none")
        other == Item(elsewhere, elsewhere, "none", "long", "none", "none")
        encodedShort == Item(url, NoUrl, "short", "none", "none", "long")
        contentOnly == Item(url, NoUrl, "none", "short", "none", "none")
        contentLong == Item(url, NoUrl, "none", "long", "short", "short")
    IN  { [parse |-> "throws", items |-> <<>>],
          [parse |-> "ok", items |-> <<other>>],
          [parse |-> "ok", items |-> <<other, full>>],
          [parse |-> "ok", items |-> <<summary>>],
          [parse |-> "ok", items |-> <<byGuid>>],
          [parse |-> "ok", items |-> <<blank, full>>],
          [parse |-> "ok", items |-> <<script>>],
          [parse |-> "ok", items |-> <<encodedShort>>],
          [parse |-> "ok", items |-> <<contentOnly>>],
          [parse |-> "ok", items |-> <<contentLong>>] }

AllFeeds == UNION {FeedPool(url) : url \in ArticleUrls}

Extractions == {"content", "empty", "Error", "TypeError"}

(* Actions *)

TimerDue == timeoutId = "armed" /\ elapsedMs >= FETCH_TIMEOUT_MS

\* What a failing branch leaves behind; finally clears the timer on return.
FailWith(f, timer) ==
    LET next == beginFailure(f, articleUrl, sourceFeedUrl)
    IN  /\ failure' = f
        /\ uncachedPc' = next.pc
        /\ fallbackReturn' = next.fallbackReturn
        /\ uncachedResult' = next.result
        /\ timeoutId' = IF next.pc = "done" THEN "cleared" ELSE timer

\* fetchArticleContentUncached is called: the timer is armed and the first
\* fetch of fetchWithTrailingSlashRetry is awaited.
StartUncached(url, feedUrl) ==
    /\ uncachedPc = "idle"
    /\ articleUrl' = url
    /\ sourceFeedUrl' = feedUrl
    /\ timeoutId' = "armed"
    /\ uncachedPc' = "fetch"
    /\ UNCHANGED <<elapsedMs, initialAttempt, primaryResponse, failure, abortedRequest,
                   retryCount, parsedFeeds, fallbackReturn, uncachedResult>>
    /\ UNCHANGED <<serverVars, cacheOpsVars, rankVars, clientVars, scoreVars, contentVars, inboxVars, readerVars, feedVars, layerVars, providerVars, listVars>>

\* Time passes while the call is suspended; a due timer runs before anything else.
Wait ==
    /\ uncachedPc \in {"fetch", "retry", "text", "fallback"}
    /\ ~TimerDue
    /\ elapsedMs < MaxWaits * TimeStep
    /\ elapsedMs' = elapsedMs + TimeStep
    /\ UNCHANGED <<uncachedPc, articleUrl, sourceFeedUrl, timeoutId, initialAttempt,
                   primaryResponse, failure, abortedRequest, retryCount, parsedFeeds,
                   fallbackReturn, uncachedResult>>
    /\ UNCHANGED <<serverVars, cacheOpsVars, rankVars, clientVars, scoreVars, contentVars, inboxVars, readerVars, feedVars, layerVars, providerVars, listVars>>

\* The first fetch settles.
FirstFetchSettles(outcome) ==
    /\ uncachedPc = "fetch"
    /\ ~TimerDue
    /\ LET fetchUrl == normalizeArticleUrlForFetch(articleUrl)
           trailingSlashUrl == toTrailingSlashUrl(fetchUrl)
       IN  /\ fetchUrl.valid \/ outcome.kind = "throws"
           /\ initialAttempt' = outcome
           /\ IF IsOk(outcome)
              THEN /\ primaryResponse' = outcome
                   /\ uncachedPc' = "text"
                   /\ UNCHANGED <<failure, retryCount, fallbackReturn, uncachedResult,
                                  timeoutId>>
              ELSE IF trailingSlashUrl.valid
              THEN /\ uncachedPc' = "retry"
                   /\ retryCount' = retryCount + 1
                   /\ UNCHANGED <<primaryResponse, failure, fallbackReturn,
                                  uncachedResult, timeoutId>>
              ELSE IF outcome.kind = "response"
              THEN /\ primaryResponse' = outcome
                   /\ FailWith(Failure("http", "none", outcome.status), timeoutId)
                   /\ UNCHANGED retryCount
              ELSE /\ FailWith(Failure("throw", "TypeError", 0), timeoutId)
                   /\ UNCHANGED <<primaryResponse, retryCount>>
    /\ UNCHANGED <<articleUrl, sourceFeedUrl, elapsedMs, abortedRequest, parsedFeeds>>
    /\ UNCHANGED <<serverVars, cacheOpsVars, rankVars, clientVars, scoreVars, contentVars, inboxVars, readerVars, feedVars, layerVars, providerVars, listVars>>

\* The fetch of the trailing-slash URL settles.
RetrySettles(outcome) ==
    /\ uncachedPc = "retry"
    /\ ~TimerDue
    /\ IF IsOk(outcome)
       THEN /\ primaryResponse' = outcome
            /\ uncachedPc' = "text"
            /\ UNCHANGED <<failure, fallbackReturn, uncachedResult, timeoutId>>
       ELSE IF initialAttempt.kind = "response"
       THEN /\ primaryResponse' = initialAttempt
            /\ FailWith(Failure("http", "none", initialAttempt.status), timeoutId)
       ELSE IF outcome.kind = "response"
       THEN /\ primaryResponse' = outcome
            /\ FailWith(Failure("http", "none", outcome.status), timeoutId)
       ELSE /\ FailWith(Failure("throw", "TypeError", 0), timeoutId)
            /\ UNCHANGED primaryResponse
    /\ UNCHANGED <<articleUrl, sourceFeedUrl, elapsedMs, initialAttempt, abortedRequest,
                   retryCount, parsedFeeds>>
    /\ UNCHANGED <<serverVars, cacheOpsVars, rankVars, clientVars, scoreVars, contentVars, inboxVars, readerVars, feedVars, layerVars, providerVars, listVars>>

\* response.text() settles and the document goes through Readability:
\* "content", "empty" (no article or no content), or something throws.
TextSettles(extraction) ==
    /\ uncachedPc = "text"
    /\ ~TimerDue
    /\ IF extraction = "content"
       THEN /\ uncachedResult' = Success("full", "extraction")
            /\ uncachedPc' = "done"
            /\ timeoutId' = "cleared"
            /\ UNCHANGED <<failure, fallbackReturn>>
       ELSE IF extraction = "empty"
       THEN FailWith(Failure("extract", "none", 0), timeoutId)
       ELSE FailWith(Failure("throw", extraction, 0), timeoutId)
    /\ UNCHANGED <<articleUrl, sourceFeedUrl, elapsedMs, initialAttempt, primaryResponse,
                   abortedRequest, retryCount, parsedFeeds>>
    /\ UNCHANGED <<serverVars, cacheOpsVars, rankVars, clientVars, scoreVars, contentVars, inboxVars, readerVars, feedVars, layerVars, providerVars, listVars>>

\* The timer callback: controller.abort() rejects the pending request with an
\* AbortError; while the fallback runs there is no request to abort.
TimerFires ==
    /\ uncachedPc \in {"fetch", "retry", "text", "fallback"}
    /\ TimerDue
    /\ LET trailingSlashUrl == toTrailingSlashUrl(normalizeArticleUrlForFetch(articleUrl))
       IN  CASE uncachedPc = "fetch" ->
                    /\ abortedRequest' = "fetch"
                    /\ initialAttempt' = [kind |-> "throws", status |-> 0]
                    /\ retryCount' = IF trailingSlashUrl.valid THEN retryCount + 1
                                                               ELSE retryCount
                    /\ FailWith(Failure("throw", "AbortError", 0), "fired")
                    /\ UNCHANGED primaryResponse
              [] uncachedPc = "retry" ->
                    /\ abortedRequest' = "retry"
                    /\ IF initialAttempt.kind = "response"
                       THEN /\ primaryResponse' = initialAttempt
                            /\ FailWith(Failure("http", "none", initialAttempt.status),
                                        "fired")
                       ELSE /\ FailWith(Failure("throw", "AbortError", 0), "fired")
                            /\ UNCHANGED primaryResponse
                    /\ UNCHANGED <<initialAttempt, retryCount>>
              [] uncachedPc = "text" ->
                    /\ abortedRequest' = "text"
                    /\ FailWith(Failure("throw", "AbortError", 0), "fired")
                    /\ UNCHANGED <<initialAttempt, primaryResponse, retryCount>>
              [] uncachedPc = "fallback" ->
                    /\ timeoutId' = "fired"
                    /\ UNCHANGED <<uncachedPc, initialAttempt, primaryResponse, failure,
                                   abortedRequest, retryCount, fallbackReturn,
                                   uncachedResult>>
    /\ UNCHANGED <<articleUrl, sourceFeedUrl, elapsedMs, parsedFeeds>>
    /\ UNCHANGED <<serverVars, cacheOpsVars, rankVars, clientVars, scoreVars, contentVars, inboxVars, readerVars, feedVars, layerVars, providerVars, listVars>>

\* parseFeedWithCache settles for the next candidate and the loop of
\* getFallbackFromFeed runs up to its next await or its return.
FeedSettles(feed) ==
    /\ uncachedPc = "fallback"
    /\ ~TimerDue
    /\ feed \in FeedPool(articleUrl)
    /\ LET candidates == getFeedCandidates(articleUrl, sourceFeedUrl)
           target == normalizeComparableUrl(articleUrl)
           fallback == fallbackFromFeed(feed, target)
       IN  /\ parsedFeeds' = Append(parsedFeeds, feed)
           /\ IF fallback.found
              THEN /\ fallbackReturn' = "content"
                   /\ uncachedResult' = Success(fallback.contentMode, "fallback")
                   /\ uncachedPc' = "done"
                   /\ timeoutId' = "cleared"
              ELSE IF Len(parsedFeeds) + 1 < Len(candidates)
              THEN UNCHANGED <<fallbackReturn, uncachedResult, uncachedPc, timeoutId>>
              ELSE /\ fallbackReturn' = "null"
                   /\ uncachedResult' = errorResult(failure)
                   /\ uncachedPc' = "done"
                   /\ timeoutId' = "cleared"
    /\ UNCHANGED <<articleUrl, sourceFeedUrl, elapsedMs, initialAttempt, primaryResponse,
                   failure, abortedRequest, retryCount>>
    /\ UNCHANGED <<serverVars, cacheOpsVars, rankVars, clientVars, scoreVars, contentVars, inboxVars, readerVars, feedVars, layerVars, providerVars, listVars>>

UncachedInit ==
    /\ ServerInit
    /\ CacheOpsIdle
    /\ RankIdle
    /\ ClientIdle
    /\ UncachedIdle
    /\ ScoreIdle
    /\ ContentIdle
    /\ InboxIdle
    /\ ReaderIdle
    /\ FeedIdle
    /\ LayerIdle
    /\ ProviderIdle
    /\ ListIdle

UncachedNext ==
    \/ \E url \in ArticleUrls, feedUrl \in SourceFeedUrls : StartUncached(url, feedUrl)
    \/ Wait
    \/ \E outcome \in FetchOutcomes : FirstFetchSettles(outcome)
    \/ \E outcome \in FetchOutcomes : RetrySettles(outcome)
    \/ \E extraction \in Extractions : TextSettles(extraction)
    \/ TimerFires
    \/ \E feed \in AllFeeds : FeedSettles(feed)

SpecUncached == UncachedInit /\ [][UncachedNext]_vars

----------------------------------------------------------------------------
(* The client cache module: loadArticleContent and prefetchArticleContent.   *)
(* A cache key is the article it stands for.  The then and finally callbacks *)
(* of a request and the continuations of the calls awaiting it run as        *)
(* consecutive microtasks when the server action settles, so they are one    *)
(* step.                                                                     *)

AUTO_PREFETCH_COUNT == 4

ClientKeys == {FilteredArticles[i] : i \in 1..Len(FilteredArticles)}

\* The articles the reader pane asks for, and the ones a pointer hovers over.
ReaderKeys == {"a1"}
HoverKeys == {"a1", "a2", "a3"}

ClientState(cache, requests, pending, settled) ==
    [cache |-> cache, inFlight |-> requests, pending |-> pending, settled |-> settled]

\* loadArticleContent(url) up to its return, for a caller of the given kind
\* ("prefetch" or "load"): cache hit, join the pending request, or start one.
loadArticleContent(st, kind, key) ==
    LET read == clientGetCachedValue(st.cache, key, clientNow)
        call == [kind |-> kind, key |-> key]
    IN  IF read.value # NoValue
        THEN ClientState(read.cache, st.inFlight, st.pending,
                         st.settled \cup {[call |-> call, state |-> "resolved"]})
        ELSE IF st.inFlight[key] # "none"
        THEN ClientState(read.cache, st.inFlight, st.pending \cup {call}, st.settled)
        ELSE ClientState(read.cache, [st.inFlight EXCEPT ![key] = kind],
                         st.pending \cup {call}, st.settled)

\* for (const article of filtered.slice(0, 4)) prefetchArticleContent(...)
RECURSIVE prefetchEach(_, _, _)
prefetchEach(st, articles, i) ==
    IF i > Len(articles)
    THEN st
    ELSE prefetchEach(loadArticleContent(st, "prefetch", articles[i]), articles, i + 1)

settleCallUncaught(kind, outcome) ==
    IF outcome = "rejects" THEN "rejected" ELSE "resolved"

\* How the promise a call holds ends: prefetchArticleContent attaches
\* .catch(() => {}), any other caller gets the rejection.
settleCall(kind, outcome) ==
    IF outcome = "rejects"
    THEN IF kind = "prefetch" THEN "swallowed" ELSE "rejected"
    ELSE "resolved"

thenCallbackOnRejection(cache, key, value, outcome, t) ==
    clientSetCachedValue(cache, key, value, t)

\* .then((result) => { setCachedValue(key, result); return result; }) runs when
\* the server action fulfils; a rejection skips it.
thenCallback(cache, key, value, outcome, t) ==
    IF outcome = "rejects" THEN cache ELSE clientSetCachedValue(cache, key, value, t)

CurrentClient == ClientState(articleCache, clientInFlight, pendingCalls, {})

Becomes(st) ==
    /\ articleCache' = st.cache
    /\ clientInFlight' = st.inFlight
    /\ pendingCalls' = st.pending
    /\ settledCalls' = st.settled
    /\ UNCHANGED clientNow
    /\ UNCHANGED <<serverVars, cacheOpsVars, rankVars, uncachedVars, scoreVars, contentVars, inboxVars, readerVars, feedVars, layerVars, providerVars, listVars>>

\* A row is hovered or opened: prefetchArticleContent(article.link).
PrefetchArticleContent(key) ==
    /\ key \in ClientKeys
    /\ Becomes(loadArticleContent(CurrentClient, "prefetch", key))

\* The list effect prefetches the top entries.
AutoPrefetch ==
    /\ Len(FilteredArticles) >= AUTO_PREFETCH_COUNT
    /\ Becomes(prefetchEach(CurrentClient,
                            SubSeq(FilteredArticles, 1, AUTO_PREFETCH_COUNT), 1))

\* The reader pane loads the selected article.
ReaderLoad(key) ==
    /\ key \in ClientKeys
    /\ Becomes(loadArticleContent(CurrentClient, "load", key))

\* The server action fetchArticleContent settles for the request of `key`:
\* it fulfils with a content or an error result, or the call itself rejects.
ServerActionSettles(key, outcome) ==
    /\ clientInFlight[key] # "none"
    /\ LET awaiting == {c \in pendingCalls : c.key = key}
           value == [kind |-> outcome, rid |-> 0]
       IN  Becomes(ClientState(
               thenCallback(articleCache, key, value, outcome, clientNow),
               [clientInFlight EXCEPT ![key] = "none"],
               pendingCalls \ awaiting,
               {[call |-> c, state |-> settleCall(c.kind, outcome)] : c \in awaiting}))

ClientInit ==
    /\ ServerInit
    /\ CacheOpsIdle
    /\ RankIdle
    /\ UncachedIdle
    /\ ClientIdle
    /\ ScoreIdle
    /\ ContentIdle
    /\ InboxIdle
    /\ ReaderIdle
    /\ FeedIdle
    /\ LayerIdle
    /\ ProviderIdle
    /\ ListIdle

ClientNext ==
    \/ \E key \in HoverKeys : PrefetchArticleContent(key)
    \/ AutoPrefetch
    \/ \E key \in ReaderKeys : ReaderLoad(key)
    \/ \E key \in ClientKeys, outcome \in {"content", "error", "rejects"} :
          ServerActionSettles(key, outcome)

SpecClient == ClientInit /\ [][ClientNext]_vars

----------------------------------------------------------------------------
(* The rendering transform: ArticleContent's contentNodes (SpecContent).     *)
(*                                                                           *)
(* A string is the sequence of its maximal runs: a run of spaces is " ", a   *)
(* line break is "\n", and any other run is a word of Vocabulary (the marker *)
(* phrase "opens in a new window" counts as one word).  A DOM                *)
(* node is a record with its nodeType, lower-case tag name, attribute names  *)
(* and childNodes; a ReactNode is a record with its kind ("null", "string",  *)
(* "fragment", "element" or "icon").  The html prop is held as the node      *)
(* structure its markup spells out, which is what both the HTML parser and   *)
(* the regular expressions of htmlToPlainText work on.                       *)

Whitespace == {" ", "\n"}

Vocabulary ==
    {"Jane", "Doe,", "CTO", "ok", "x", "-", "by", "said.", "J.",
     "Simplicity", "is", "prerequisite", "for", "reliability.",
     "opens in a new window"}

\* text.length of a word.
WordLength(word) ==
    CASE word \in {"x", "-"} -> 1
      [] word \in {"ok", "by", "is", "J."} -> 2
      [] word \in {"CTO", "for"} -> 3
      [] word \in {"Jane", "Doe,"} -> 4
      [] word = "said." -> 5
      [] word = "Simplicity" -> 10
      [] word \in {"prerequisite", "reliability."} -> 12
      [] word = "opens in a new window" -> 21

\* /^[A-Z][\p{L}'-]+$/u.test(word)
CapitalizedWords == {"Jane", "CTO", "Simplicity"}
\* /[A-Za-z]/.test(word)
LetterWords == Vocabulary \ {"-"}
\* /[.!?]$/.test(word)
PunctuationEnded == {"said.", "J.", "reliability."}
\* /[A-Z]\./.test(word)
Abbreviations == {"J."}
\* word.includes(",")
CommaWords == {"Doe,"}
\* /^[–—-]+$/.test(word)
Dashes == {"-"}

RECURSIVE TrimStart(_)
TrimStart(text) ==
    IF text # <<>> /\ Head(text) \in Whitespace THEN TrimStart(Tail(text)) ELSE text

RECURSIVE TrimEnd(_)
TrimEnd(text) ==
    IF text # <<>> /\ text[Len(text)] \in Whitespace
    THEN TrimEnd(SubSeq(text, 1, Len(text) - 1))
    ELSE text

Trim(text) == TrimEnd(TrimStart(text))

\* value.replace(/\s+/g, " ")
RECURSIVE CollapseWhitespace(_)
CollapseWhitespace(text) ==
    IF text = <<>> THEN <<>>
    ELSE IF Head(text) \in Whitespace
         THEN <<" ">> \o CollapseWhitespace(TrimStart(text))
         ELSE <<Head(text)>> \o CollapseWhitespace(Tail(text))

\* text.length, for a text whose whitespace runs were collapsed to one space.
RECURSIVE TextLength(_)
TextLength(text) ==
    IF text = <<>> THEN 0
    ELSE (IF Head(text) \in Whitespace THEN 1 ELSE WordLength(Head(text)))
         + TextLength(Tail(text))

\* text.split(/\s+/).filter(Boolean)
Words(text) == SelectSeq(text, LAMBDA token : token \notin Whitespace)

normalizeQuoteOwnerText(value) ==
    LET collapsed == CollapseWhitespace(value)
        undashed == IF collapsed # <<>> /\ Head(collapsed) \in Dashes
                    THEN TrimStart(Tail(collapsed))
                    ELSE collapsed
        unby == IF Len(undashed) >= 2 /\ undashed[1] = "by" /\ undashed[2] \in Whitespace
                THEN TrimStart(Tail(undashed))
                ELSE undashed
    IN  Trim(unby)

looksLikeQuoteOwner(text) ==
    LET words == Words(text)
        some(set) == \E i \in 1..Len(words) : words[i] \in set
    IN  /\ text # <<>>
        /\ TextLength(text) >= 3 /\ TextLength(text) <= 140
        /\ some(LetterWords)
        /\ Len(words) <= 18
        /\ ~(text[Len(text)] \in PunctuationEnded /\ ~some(Abbreviations))
        /\ (some(CommaWords) \/ some(CapitalizedWords))

\* DOM nodes.
TextNode(text) ==
    [nodeType |-> 3, tag |-> "#text", attributes |-> {}, text |-> text, childNodes |-> <<>>]
Element(tag, attributes, childNodes) ==
    [nodeType |-> 1, tag |-> tag, attributes |-> attributes, text |-> <<>>,
     childNodes |-> childNodes]

\* React nodes.
NullNode == [kind |-> "null", tag |-> "", props |-> {}, text |-> <<>>, children |-> <<>>]
StringNode(text) ==
    [kind |-> "string", tag |-> "", props |-> {}, text |-> text, children |-> <<>>]
FragmentNode(children) ==
    [kind |-> "fragment", tag |-> "", props |-> {}, text |-> <<>>, children |-> children]
createElement(tag, props, children) ==
    [kind |-> "element", tag |-> tag, props |-> props, text |-> <<>>, children |-> children]
ExternalLink == [kind |-> "icon", tag |-> "", props |-> {"aria-label"}, text |-> <<>>,
                 children |-> <<>>]

VOID_TAGS ==
    {"area", "base", "br", "col", "embed", "hr", "img", "input", "link", "meta",
     "param", "source", "track", "wbr"}

ALLOWED_TAGS ==
    {"a", "article", "aside", "blockquote", "br", "caption", "code", "details", "div",
     "em", "figcaption", "figure", "h1", "h2", "h3", "h4", "h5", "h6", "hr", "i", "img",
     "li", "main", "ol", "p", "picture", "pre", "section", "source", "span", "strong",
     "sub", "summary", "sup", "table", "tbody", "td", "thead", "th", "tr", "u", "ul"}

TABLE_STRUCTURE_TAGS == {"table", "thead", "tbody", "tfoot", "tr", "colgroup"}

INLINE_WHITESPACE_PARENTS ==
    {"a", "code", "em", "i", "span", "strong", "sub", "sup", "td", "th", "u"}

\* The attribute names the model's documents use: "style", "title", "class",
\* "href" and "data-quote-owner".
isAllowedAttribute(tag, attrName) ==
    IF attrName = "style" THEN FALSE
    ELSE IF attrName = "title" THEN TRUE
    ELSE IF attrName = "data-quote-owner" THEN TRUE
    ELSE \/ tag = "a" /\ attrName = "href"
         \/ tag \in {"code", "pre", "span"} /\ attrName = "class"

\* node.textContent
RECURSIVE textContent(_)
textContent(node) ==
    LET RECURSIVE concat(_)
        concat(nodes) ==
            IF nodes = <<>> THEN <<>>
            ELSE textContent(Head(nodes)) \o concat(Tail(nodes))
    IN  IF node.nodeType = 3 THEN node.text
        ELSE IF node.nodeType = 1 THEN concat(node.childNodes)
        ELSE <<>>

\* element.querySelector(tags) !== null
RECURSIVE querySelector(_, _)
querySelector(element, tags) ==
    \E i \in 1..Len(element.childNodes) :
        LET child == element.childNodes[i]
        IN  child.nodeType = 1 /\ (child.tag \in tags \/ querySelector(child, tags))

\* The index of the element's nextElementSibling in its parent's childNodes, 0
\* when there is none.
nextElementSibling(siblings, i) ==
    LET later == {j \in (i + 1)..Len(siblings) : siblings[j].nodeType = 1}
    IN  IF later = {} THEN 0 ELSE CHOOSE j \in later : \A k \in later : j <= k

\* The test of one blockquote against its next element sibling.
movesQuoteOwner(blockquote, next) ==
    /\ next.tag \in {"p", "div", "cite"}
    /\ "data-quote-owner" \notin next.attributes
    /\ ~querySelector(next, {"blockquote", "h1", "h2", "h3", "h4", "h5", "h6", "pre",
                             "table", "ul", "ol", "figure"})
    /\ looksLikeQuoteOwner(normalizeQuoteOwnerText(textContent(next)))
    /\ TextLength(Trim(CollapseWhitespace(textContent(blockquote)))) >= 30

\* next after the loop body marked it: its text normalized unless it holds
\* inline markup, and the data-quote-owner attribute set.
quoteOwner(next) ==
    [next EXCEPT
        !.childNodes = IF querySelector(next, {"a", "strong", "em", "span", "code"})
                       THEN @
                       ELSE <<TextNode(normalizeQuoteOwnerText(textContent(next)))>>,
        !.attributes = @ \cup {"data-quote-owner"}]

RemoveAt(seq, i) == SubSeq(seq, 1, i - 1) \o SubSeq(seq, i + 1, Len(seq))

\* moveQuoteOwnerInsideBlockquote on the childNodes of one parent, from the
\* i-th child on: the blockquotes are visited in document order, each one before
\* the blockquotes inside it, and each visit sees the moves made before it.
RECURSIVE moveQuoteOwnerFrom(_, _)
moveQuoteOwnerFrom(siblings, i) ==
    IF i > Len(siblings) THEN siblings
    ELSE LET node == siblings[i]
             j == nextElementSibling(siblings, i)
             moves == /\ node.nodeType = 1 /\ node.tag = "blockquote"
                      /\ j # 0
                      /\ movesQuoteOwner(node, siblings[j])
             visited == IF moves
                        THEN [node EXCEPT !.childNodes = @ \o <<quoteOwner(siblings[j])>>]
                        ELSE node
             rest == IF moves THEN RemoveAt(siblings, j) ELSE siblings
             inside == IF visited.nodeType = 1
                       THEN [visited EXCEPT !.childNodes = moveQuoteOwnerFrom(@, 1)]
                       ELSE visited
         IN  moveQuoteOwnerFrom([rest EXCEPT ![i] = inside], i + 1)

moveQuoteOwnerInsideBlockquote(childNodes) == moveQuoteOwnerFrom(childNodes, 1)

\* The first index of the marker phrase in the text, 0 when it is absent.
markerIndex(text) ==
    LET hits == {i \in 1..Len(text) : text[i] = "opens in a new window"}
    IN  IF hits = {} THEN 0 ELSE CHOOSE i \in hits : \A k \in hits : i <= k

replaceWindowHintWithIcon(text) ==
    LET start == markerIndex(text)
        before == TrimEnd(SubSeq(text, 1, start - 1))
        after == TrimStart(SubSeq(text, start + 1, Len(text)))
    IN  IF start = 0 THEN StringNode(text)
        ELSE FragmentNode(<<StringNode(before), ExternalLink,
                            IF after # <<>> THEN StringNode(<<" ">> \o after)
                            ELSE NullNode>>)

\* toReactNode; parentTag is getParentTagName(node) and preformatted is
\* isWithinPreformattedContext(node), which the walk knows from the way down.
\* The documents hold no img, so isDeployToCloudflareBadge is false throughout.
RECURSIVE toReactNode(_, _, _)
toReactNode(node, parentTag, preformatted) ==
    LET children ==
            [i \in 1..Len(node.childNodes) |->
                toReactNode(node.childNodes[i], node.tag,
                            preformatted \/ node.tag \in {"pre", "code"})]
        props ==
            {IF attrName = "class" THEN "className" ELSE attrName :
                attrName \in {a \in node.attributes : isAllowedAttribute(node.tag, a)}}
    IN  IF node.nodeType = 3
        THEN IF preformatted THEN StringNode(node.text)
             ELSE IF Trim(node.text) = <<>>
                  THEN IF parentTag = "" THEN NullNode
                       ELSE IF parentTag \in TABLE_STRUCTURE_TAGS THEN NullNode
                       ELSE IF parentTag \in INLINE_WHITESPACE_PARENTS
                            THEN StringNode(<<" ">>)
                       ELSE NullNode
                  ELSE replaceWindowHintWithIcon(node.text)
        ELSE IF node.nodeType # 1 THEN NullNode
        ELSE IF node.tag \in {"script", "style"} THEN NullNode
        ELSE IF node.tag \notin ALLOWED_TAGS THEN FragmentNode(children)
        ELSE IF node.tag = "br"
             THEN FragmentNode(<<createElement("br", {}, <<>>),
                                 createElement("span", {"className", "aria-hidden"}, <<>>)>>)
        ELSE IF node.tag \in VOID_TAGS THEN createElement(node.tag, props, <<>>)
        ELSE createElement(node.tag, props, children)

\* The markup with its tags replaced as the first three replace calls of
\* htmlToPlainText do; the model's documents hold no character references.
RECURSIVE stripTags(_)
stripTags(nodes) ==
    IF nodes = <<>> THEN <<>>
    ELSE LET node == Head(nodes)
             own == IF node.nodeType = 3 THEN node.text
                    ELSE IF node.nodeType # 1 THEN <<" ">>
                    ELSE IF node.tag = "br" THEN <<"\n", "\n">>
                    ELSE IF node.tag \in VOID_TAGS THEN <<" ">>
                    ELSE <<" ">> \o stripTags(node.childNodes)
                         \o (IF node.tag \in {"p", "div", "section", "article", "h1", "h2",
                                             "h3", "h4", "h5", "h6", "li", "blockquote",
                                             "tr"}
                             THEN <<"\n">> ELSE <<" ">>)
         IN  own \o stripTags(Tail(nodes))

\* text.split(/\n\n+/): the pieces between the runs of two or more line breaks.
RECURSIVE splitParagraphs(_, _)
splitParagraphs(text, piece) ==
    IF text = <<>> THEN <<piece>>
    ELSE IF Len(text) >= 2 /\ text[1] = "\n" /\ text[2] = "\n"
         THEN LET RECURSIVE skip(_)
                  skip(t) == IF t # <<>> /\ Head(t) = "\n" THEN skip(Tail(t)) ELSE t
              IN  <<piece>> \o splitParagraphs(skip(text), <<>>)
         ELSE splitParagraphs(Tail(text), Append(piece, Head(text)))

\* .replace(/\n{3,}/g, "\n\n")
RECURSIVE collapseBreaks(_)
collapseBreaks(text) ==
    IF Len(text) >= 3 /\ text[1] = "\n" /\ text[2] = "\n" /\ text[3] = "\n"
    THEN collapseBreaks(Tail(text))
    ELSE IF text = <<>> THEN <<>>
    ELSE <<Head(text)>> \o collapseBreaks(Tail(text))

\* .replace(/[ \t]+/g, " ")
RECURSIVE collapseSpaces(_)
collapseSpaces(text) ==
    IF Len(text) >= 2 /\ text[1] = " " /\ text[2] = " "
    THEN collapseSpaces(Tail(text))
    ELSE IF text = <<>> THEN <<>>
    ELSE <<Head(text)>> \o collapseSpaces(Tail(text))

htmlToPlainText(markup) == Trim(collapseSpaces(collapseBreaks(stripTags(markup))))

fallbackNodesEmpty(markup) == <<>>

fallbackNodesFromHtml(markup) ==
    LET text == htmlToPlainText(markup)
        paragraphs == splitParagraphs(text, <<>>)
    IN  IF text = <<>> THEN <<>>
        ELSE [i \in 1..Len(paragraphs) |->
                 createElement("p", {}, <<StringNode(Trim(paragraphs[i]))>>)]

\* document.body.childNodes of parser.parseFromString(html, "text/html"): what
\* precedes the first body content (white space, comments, script and style
\* elements) is not in the body.
RECURSIVE parseFromString(_)
parseFromString(markup) ==
    IF markup = <<>> THEN <<>>
    ELSE LET node == Head(markup)
         IN  IF \/ node.nodeType = 3 /\ Trim(node.text) = <<>>
                \/ node.nodeType = 8
                \/ node.nodeType = 1 /\ node.tag \in {"script", "style"}
             THEN parseFromString(Tail(markup))
             ELSE markup

\* html.trim() is the empty string
isBlank(markup) ==
    \A i \in 1..Len(markup) : markup[i].nodeType = 3 /\ Trim(markup[i].text) = <<>>

bodyAfterMove(markup) == moveQuoteOwnerInsideBlockquote(parseFromString(markup))

hasVisibleNodes(nodes) ==
    \E i \in 1..Len(nodes) :
        /\ nodes[i].kind # "null"
        /\ nodes[i].kind = "string" => Trim(nodes[i].text) # <<>>

\* The memo of ArticleContent.
ArticleContent(markup, hasDomParser) ==
    LET body == bodyAfterMove(markup)
        nodes == [i \in 1..Len(body) |-> toReactNode(body[i], "body", FALSE)]
    IN  IF isBlank(markup) THEN <<>>
        ELSE IF ~hasDomParser THEN fallbackNodesFromHtml(markup)
        ELSE IF hasVisibleNodes(nodes) THEN nodes
        ELSE fallbackNodesFromHtml(markup)

\* The documents: up to MaxNodes top-level nodes out of DocumentNodes.
Quote == <<"Simplicity", " ", "is", " ", "prerequisite", " ", "for", " ", "reliability.">>
Owner == <<"Jane", " ", "Doe,", " ", "CTO">>
Paragraph(text) == Element("p", {}, <<TextNode(text)>>)
LongQuote == Element("blockquote", {}, <<Paragraph(Quote)>>)
Row == Element("tr", {}, <<TextNode(<<"\n">>), Element("td", {}, <<TextNode(<<"ok">>)>>),
                          TextNode(<<"\n">>)>>)
Table ==
    Element("table", {},
            <<TextNode(<<"\n">>),
              Element("tbody", {}, <<TextNode(<<"\n">>), Row, TextNode(<<"\n">>)>>),
              Element("tfoot", {}, <<TextNode(<<" ">>), Row>>),
              TextNode(<<"\n">>)>>)

DocumentNodes ==
    {TextNode(<<" ">>),
     TextNode(<<"ok">>),
     [nodeType |-> 8, tag |-> "#comment", attributes |-> {}, text |-> <<"x">>,
      childNodes |-> <<>>],
     Element("script", {}, <<TextNode(<<"x">>)>>),
     Element("style", {}, <<TextNode(<<"x">>)>>),
     Paragraph(<<"ok">>),
     Paragraph(<<"ok", " ", "opens in a new window", " ", "ok">>),
     Element("font", {"style"}, <<TextNode(<<"ok">>), Element("br", {}, <<>>)>>),
     Element("div", {"title", "style"},
             <<TextNode(<<"\n">>), Element("script", {}, <<TextNode(<<"x">>)>>),
               Element("span", {"class"}, <<TextNode(<<" ">>)>>)>>),
     Element("p", {}, <<Element("code", {}, <<TextNode(<<"\n", " ">>)>>),
                        Element("a", {"href"}, <<TextNode(<<" ">>)>>)>>),
     Table,
     Element("pre", {}, <<Table>>),
     LongQuote,
     Element("blockquote", {}, <<Paragraph(<<"ok">>)>>),
     Element("blockquote", {}, <<Paragraph(Quote), LongQuote>>),
     Paragraph(Owner),
     Paragraph(<<"-", " ", "by", " ">> \o Owner),
     Paragraph(<<"ok", " ", "said.">>),
     Element("p", {"data-quote-owner"}, <<TextNode(Owner)>>),
     Element("p", {}, <<Element("strong", {}, <<TextNode(<<"Jane">>)>>),
                        TextNode(<<" ", "Doe,", " ", "CTO">>)>>),
     Element("div", {}, <<Element("ul", {}, <<Element("li", {}, <<TextNode(Owner)>>)>>)>>),
     Element("cite", {}, <<TextNode(Owner)>>),
     Element("section", {}, <<LongQuote, TextNode(<<"\n">>), Paragraph(Owner),
                              Paragraph(Owner)>>)}

AppendNode(node) ==
    /\ contentPc = "input"
    /\ Len(html) < MaxNodes
    /\ html # <<>> => ~(html[Len(html)].nodeType = 3 /\ node.nodeType = 3)
    /\ html' = Append(html, node)
    /\ UNCHANGED <<domParser, root, contentNodes, contentPc>>
    /\ UNCHANGED <<serverVars, cacheOpsVars, rankVars, uncachedVars, clientVars, scoreVars, inboxVars, readerVars, feedVars, layerVars, providerVars, listVars>>

Render(hasDomParser) ==
    /\ contentPc = "input"
    /\ domParser' = hasDomParser
    /\ root' = IF hasDomParser /\ ~isBlank(html) THEN bodyAfterMove(html) ELSE <<>>
    /\ contentNodes' = ArticleContent(html, hasDomParser)
    /\ contentPc' = "done"
    /\ UNCHANGED html
    /\ UNCHANGED <<serverVars, cacheOpsVars, rankVars, uncachedVars, clientVars, scoreVars, inboxVars, readerVars, feedVars, layerVars, providerVars, listVars>>

ContentInit ==
    /\ ServerInit
    /\ CacheOpsIdle
    /\ RankIdle
    /\ UncachedIdle
    /\ ClientIdle
    /\ ScoreIdle
    /\ ContentIdle
    /\ InboxIdle
    /\ ReaderIdle
    /\ FeedIdle
    /\ LayerIdle
    /\ ProviderIdle
    /\ ListIdle

ContentNext ==
    \/ \E node \in DocumentNodes : AppendNode(node)
    \/ \E hasDomParser \in BOOLEAN : Render(hasDomParser)

SpecContent == ContentInit /\ [][ContentNext]_vars

----------------------------------------------------------------------------
(* One call of applyDeveloperInboxLimits (SpecInbox).  An article is its     *)
(* read key and sourceId; readTimestampsByKey is fixed, with unread keys,    *)
(* a key read yesterday and a key read before the archive threshold.         *)

DEFAULT_UNREAD_TOTAL_LIMIT == 20
DEFAULT_READ_ARCHIVE_DAYS == 7

DEFAULT_UNREAD_PER_SOURCE_BY_TIER(tier) ==
    CASE tier = "core" -> 3
      [] tier = "normal" -> 2
      [] tier = "explore" -> 2

\* The sources option: an explore source without maxUnreadVisible and a core
\* source with maxUnreadVisible 1.
InboxSources ==
    << [id |-> "explore", tier |-> "explore", maxUnreadVisible |-> Undefined],
       [id |-> "solo", tier |-> "core", maxUnreadVisible |-> 1] >>

readTimestampsByKey ==
    [key \in {"u1", "u2", "read", "archived"} |->
        CASE key = "read" -> DaysAgo(1)
          [] key = "archived" -> DaysAgo(30)
          [] OTHER -> Undefined]

InboxArticles ==
    {[key |-> key, sourceId |-> sourceId] :
        key \in DOMAIN readTimestampsByKey, sourceId \in {"explore", "solo", "ghost"}}

resolveUnreadPerSourceLimitUnbounded(source) == DEFAULT_UNREAD_TOTAL_LIMIT

resolveUnreadPerSourceLimit(source) ==
    IF source.maxUnreadVisible # Undefined
    THEN source.maxUnreadVisible
    ELSE DEFAULT_UNREAD_PER_SOURCE_BY_TIER(resolveSourceTier(source))

\* Number.isFinite(readTimestampsByKey[key])
isRead(article) == readTimestampsByKey[article.key] # Undefined

\* The for loop of applyDeveloperInboxLimits from the i-th article on; st holds
\* selected, unreadCountBySource and unreadTotal.
RECURSIVE inboxLoop(_, _, _, _, _)
inboxLoop(rankedArticles, i, st, includeRead, unreadTotalLimit) ==
    IF i > Len(rankedArticles) THEN st.selected
    ELSE LET article == rankedArticles[i]
             next == inboxLoop(rankedArticles, i + 1, st, includeRead, unreadTotalLimit)
             hardTotalLimit == IF includeRead THEN Max(unreadTotalLimit * 3, 60)
                               ELSE unreadTotalLimit
             readArchiveThreshold == NowMs - DEFAULT_READ_ARCHIVE_DAYS * DATE_MS_PER_DAY
         IN  IF ~HasSource(InboxSources, article.sourceId) THEN next
             ELSE LET source == SourceById(InboxSources, article.sourceId)
                      read == isRead(article)
                      sourceUnreadCount == st.unreadCountBySource[source.id]
                      pushed ==
                          [selected |-> Append(st.selected, article),
                           unreadCountBySource |->
                               IF read THEN st.unreadCountBySource
                               ELSE [st.unreadCountBySource EXCEPT ![source.id] = @ + 1],
                           unreadTotal |-> IF read THEN st.unreadTotal
                                           ELSE st.unreadTotal + 1]
                  IN  IF ~includeRead /\ read THEN next
                      ELSE IF read /\ readTimestampsByKey[article.key] < readArchiveThreshold
                           THEN next
                      ELSE IF ~read /\ sourceUnreadCount >= resolveUnreadPerSourceLimit(source)
                           THEN next
                      ELSE IF ~read /\ st.unreadTotal >= unreadTotalLimit THEN next
                      ELSE IF ~includeRead /\ pushed.unreadTotal >= unreadTotalLimit
                           THEN pushed.selected
                      ELSE IF Len(pushed.selected) >= hardTotalLimit THEN pushed.selected
                      ELSE inboxLoop(rankedArticles, i + 1, pushed, includeRead,
                                     unreadTotalLimit)

applyDeveloperInboxLimits(rankedArticles, includeRead, unreadTotalLimit) ==
    inboxLoop(rankedArticles, 1,
              [selected |-> <<>>,
               unreadCountBySource |-> [id \in {"explore", "solo"} |-> 0],
               unreadTotal |-> 0],
              includeRead,
              IF unreadTotalLimit = Undefined THEN DEFAULT_UNREAD_TOTAL_LIMIT
              ELSE unreadTotalLimit)

AddInboxArticle(article) ==
    /\ ibPc = "input"
    /\ Len(ibArticles) < MaxArticles
    /\ ibArticles' = Append(ibArticles, article)
    /\ UNCHANGED <<ibIncludeRead, ibUnreadTotalLimit, ibOut, ibPc>>
    /\ UNCHANGED <<serverVars, cacheOpsVars, rankVars, uncachedVars, clientVars, scoreVars, contentVars, readerVars, feedVars, layerVars, providerVars, listVars>>

ApplyLimits(includeRead, unreadTotalLimit) ==
    /\ ibPc = "input"
    /\ ibIncludeRead' = includeRead
    /\ ibUnreadTotalLimit' = unreadTotalLimit
    /\ ibOut' = applyDeveloperInboxLimits(ibArticles, includeRead, unreadTotalLimit)
    /\ ibPc' = "done"
    /\ UNCHANGED ibArticles
    /\ UNCHANGED <<serverVars, cacheOpsVars, rankVars, uncachedVars, clientVars, scoreVars, contentVars, readerVars, feedVars, layerVars, providerVars, listVars>>

InboxInit ==
    /\ ServerInit
    /\ CacheOpsIdle
    /\ RankIdle
    /\ UncachedIdle
    /\ ClientIdle
    /\ ScoreIdle
    /\ ContentIdle
    /\ InboxIdle
    /\ ReaderIdle
    /\ FeedIdle
    /\ LayerIdle
    /\ ProviderIdle
    /\ ListIdle

InboxNext ==
    \/ \E article \in InboxArticles : AddInboxArticle(article)
    \/ \E includeRead \in BOOLEAN, unreadTotalLimit \in {Undefined, 1, 2} :
          ApplyLimits(includeRead, unreadTotalLimit)

SpecInbox == InboxInit /\ [][InboxNext]_vars

----------------------------------------------------------------------------
(* ArticleReader: the resolvedContent state and the load effect while the    *)
(* article prop changes (SpecReader).  An article is its link; a result      *)
(* records the link it was resolved for.                                     *)

ReaderLinks == {"a1", "a2"}

isLoadingNullOnly(resolvedContent, link) == resolvedContent = NoResolved

\* isLoading = !resolvedContent || resolvedContent.link !== article.link
isLoading(resolvedContent, link) ==
    resolvedContent = NoResolved \/ resolvedContent.link # link

\* content = isLoading ? null : resolvedContent.result
displayedContent(resolvedContent, link) ==
    IF isLoading(resolvedContent, link) THEN NoResolved ELSE resolvedContent

\* The effect body: a new run that called loadArticleContent; the cleanup of
\* the run before it set its stale flag.
runLoadEffect(effects, link) ==
    Append([i \in 1..Len(effects) |-> [effects[i] EXCEPT !.stale = TRUE]],
           [link |-> link, stale |-> FALSE, promise |-> "pending"])

\* ArticleReader mounts for an article: useState reads the client cache, then
\* the effect runs.
MountReader(link, cached) ==
    /\ rdArticle = ""
    /\ link \in ReaderLinks
    /\ rdArticle' = link
    /\ rdResolved' = IF cached = "none" THEN NoResolved
                     ELSE [link |-> link, for |-> link, kind |-> cached]
    /\ rdProduced' = IF cached = "none" THEN {} ELSE {link}
    /\ rdEffects' = runLoadEffect(<<>>, link)
    /\ UNCHANGED <<serverVars, cacheOpsVars, rankVars, uncachedVars, clientVars, scoreVars, contentVars, inboxVars, feedVars, layerVars, providerVars, listVars>>

\* The article prop changes: the effect's dependencies changed, so its cleanup
\* and then its body run.
SelectArticle(link) ==
    /\ rdArticle # "" /\ link \in ReaderLinks /\ link # rdArticle
    /\ Len(rdEffects) < MaxSelections
    /\ rdArticle' = link
    /\ rdEffects' = runLoadEffect(rdEffects, link)
    /\ UNCHANGED <<rdResolved, rdProduced>>
    /\ UNCHANGED <<serverVars, cacheOpsVars, rankVars, uncachedVars, clientVars, scoreVars, contentVars, inboxVars, feedVars, layerVars, providerVars, listVars>>

\* The promise of a run settles; a fulfilled one runs the then callback.
LoadSettles(i, outcome) ==
    /\ i \in 1..Len(rdEffects)
    /\ rdEffects[i].promise = "pending"
    /\ rdEffects' = [rdEffects EXCEPT ![i].promise = outcome]
    /\ rdResolved' = IF outcome # "rejected" /\ ~rdEffects[i].stale
                     THEN [link |-> rdEffects[i].link, for |-> rdEffects[i].link,
                           kind |-> outcome]
                     ELSE rdResolved
    /\ rdProduced' = IF outcome # "rejected" THEN rdProduced \cup {rdEffects[i].link}
                     ELSE rdProduced
    /\ UNCHANGED rdArticle
    /\ UNCHANGED <<serverVars, cacheOpsVars, rankVars, uncachedVars, clientVars, scoreVars, contentVars, inboxVars, feedVars, layerVars, providerVars, listVars>>

ReaderInit ==
    /\ ServerInit
    /\ CacheOpsIdle
    /\ RankIdle
    /\ UncachedIdle
    /\ ClientIdle
    /\ ScoreIdle
    /\ ContentIdle
    /\ InboxIdle
    /\ ReaderIdle
    /\ FeedIdle
    /\ LayerIdle
    /\ ProviderIdle
    /\ ListIdle

ReaderNext ==
    \/ \E link \in ReaderLinks, cached \in {"none", "content", "error"} :
          MountReader(link, cached)
    \/ \E link \in ReaderLinks : SelectArticle(link)
    \/ \E i \in 1..MaxSelections, outcome \in {"content", "error", "rejected"} :
          LoadSettles(i, outcome)

SpecReader == ReaderInit /\ [][ReaderNext]_vars

----------------------------------------------------------------------------
(* parseFeedWithCache: the feed cache and the in-flight parse requests    *)
(* (src/lib/youtube.ts)                                                     *)

MaxFeedOps == 3

FeedUrls == {"f1", "f2"}
FallbackArticles == {"x", "y"}
\* The clock lands one millisecond before and exactly on the feed TTL.
FeedTickSteps == {FEED_CACHE_TTL_MS - 1, FEED_CACHE_TTL_MS}
ParseOutcomes == {"fulfilled", "rejected"}

ParsedFeed(rid) == [kind |-> "feed", rid |-> rid]

\* .then runs on fulfilment only; a rejection passes straight to .finally
afterParseAlwaysThen(outcome) == "then"

afterParse(outcome) == IF outcome = "fulfilled" THEN "then" ELSE "finally"

FeedCall(article, feedUrl, via, rid) ==
    [article |-> article, url |-> feedUrl, via |-> via, rid |-> rid]

\* parseFeedWithCache(feedUrl), up to the returned promise
ParseFeedWithCache(article, feedUrl) ==
    /\ Cardinality(fpCalls) < MaxFeedOps
    /\ LET read == getCachedValue(feedCache, feedUrl, fpNow)
           inFlight == inFlightGet(feedInFlight, feedUrl)
           rid == Len(fpRequests) + 1
       IN  IF read.value # NoValue
           THEN /\ feedCache' = read.cache
                /\ fpCalls' = fpCalls \cup {FeedCall(article, feedUrl, "cache", read.value.rid)}
                /\ UNCHANGED <<feedInFlight, fpRequests>>
           ELSE IF inFlight # NoPromise
           THEN /\ feedCache' = read.cache
                /\ fpCalls' = fpCalls \cup {FeedCall(article, feedUrl, "request", inFlight)}
                /\ UNCHANGED <<feedInFlight, fpRequests>>
           ELSE /\ feedCache' = read.cache
                /\ fpRequests' = Append(fpRequests,
                       [url |-> feedUrl, phase |-> "parsing", outcome |-> "none",
                        cachedAt |-> Null])
                /\ feedInFlight' = inFlightSet(feedInFlight, feedUrl, rid)
                /\ fpCalls' = fpCalls \cup {FeedCall(article, feedUrl, "request", rid)}
    /\ UNCHANGED <<fpNow, fpTicks>>
    /\ UNCHANGED <<serverVars, cacheOpsVars, rankVars, uncachedVars, clientVars, scoreVars, contentVars, inboxVars, readerVars, layerVars, providerVars, listVars>>

\* parser.parseURL(feedUrl) settles
ParseUrlSettles(rid, outcome) ==
    /\ rid \in 1..Len(fpRequests)
    /\ fpRequests[rid].phase = "parsing"
    /\ fpRequests' = [fpRequests EXCEPT ![rid].phase = afterParse(outcome),
                                        ![rid].outcome = outcome]
    /\ UNCHANGED <<fpNow, feedCache, feedInFlight, fpCalls, fpTicks>>
    /\ UNCHANGED <<serverVars, cacheOpsVars, rankVars, uncachedVars, clientVars, scoreVars, contentVars, inboxVars, readerVars, layerVars, providerVars, listVars>>

\* .then((feed) => { setCachedValue(feedCache, feedUrl, parsed, ...); return parsed; })
FeedThenCallback(rid) ==
    /\ rid \in 1..Len(fpRequests)
    /\ fpRequests[rid].phase = "then"
    /\ feedCache' = setCachedValue(feedCache, fpRequests[rid].url, ParsedFeed(rid),
                                   FEED_CACHE_TTL_MS, FEED_CACHE_MAX_ENTRIES, fpNow)
    /\ fpRequests' = [fpRequests EXCEPT ![rid].phase = "finally", ![rid].cachedAt = fpNow]
    /\ UNCHANGED <<fpNow, feedInFlight, fpCalls, fpTicks>>
    /\ UNCHANGED <<serverVars, cacheOpsVars, rankVars, uncachedVars, clientVars, scoreVars, contentVars, inboxVars, readerVars, layerVars, providerVars, listVars>>

\* .finally(() => { feedInFlight.delete(feedUrl); })
FeedFinallyCallback(rid) ==
    /\ rid \in 1..Len(fpRequests)
    /\ fpRequests[rid].phase = "finally"
    /\ feedInFlight' = [feedInFlight EXCEPT ![fpRequests[rid].url] = NoPromise]
    /\ fpRequests' = [fpRequests EXCEPT ![rid].phase = "settled"]
    /\ UNCHANGED <<fpNow, feedCache, fpCalls, fpTicks>>
    /\ UNCHANGED <<serverVars, cacheOpsVars, rankVars, uncachedVars, clientVars, scoreVars, contentVars, inboxVars, readerVars, layerVars, providerVars, listVars>>

FeedTick(step) ==
    /\ fpTicks < MaxTicks
    /\ fpNow' = fpNow + step
    /\ fpTicks' = fpTicks + 1
    /\ UNCHANGED <<feedCache, feedInFlight, fpRequests, fpCalls>>
    /\ UNCHANGED <<serverVars, cacheOpsVars, rankVars, uncachedVars, clientVars, scoreVars, contentVars, inboxVars, readerVars, layerVars, providerVars, listVars>>

FeedInit ==
    /\ ServerInit
    /\ CacheOpsIdle
    /\ RankIdle
    /\ UncachedIdle
    /\ ClientIdle
    /\ ScoreIdle
    /\ ContentIdle
    /\ InboxIdle
    /\ ReaderIdle
    /\ LayerIdle
    /\ ProviderIdle
    /\ ListIdle
    /\ fpNow = 0
    /\ feedCache = <<>>
    /\ feedInFlight = [u \in FeedUrls |-> NoPromise]
    /\ fpRequests = <<>>
    /\ fpCalls = {}
    /\ fpTicks = 0

FeedNext ==
    \/ \E article \in FallbackArticles, feedUrl \in FeedUrls : ParseFeedWithCache(article, feedUrl)
    \/ \E rid \in 1..MaxFeedOps, outcome \in ParseOutcomes : ParseUrlSettles(rid, outcome)
    \/ \E rid \in 1..MaxFeedOps : FeedThenCallback(rid)
    \/ \E rid \in 1..MaxFeedOps : FeedFinallyCallback(rid)
    \/ \E step \in FeedTickSteps : FeedTick(step)

SpecFeed == FeedInit /\ [][FeedNext]_vars

----------------------------------------------------------------------------
(* A reader's session in front of the server: loadArticleContent of the     *)
(* client module calls the server action fetchArticleContent, whose cache    *)
(* is shared with every other session (SpecLayers).  One cache key.  A       *)
(* result carries the time the pipeline produced it, the time the server     *)
(* returned it, and the time the session received it.                        *)

MaxLayerTicks == 2

LayerKey == "k1"
\* The clock lands one millisecond before each TTL, and on it.
LayerTickSteps == {1, ARTICLE_ERROR_CACHE_TTL_MS - 1, ARTICLE_RESULT_CACHE_TTL_MS - 1}
PipelineOutcomes == {"content", "error"}

Produced(kind, t) ==
    [kind |-> kind, rid |-> 0, producedAt |-> t, servedAt |-> t, receivedAt |-> Null,
     at |-> Null]

\* loadArticleContent(url, sourceFeedUrl), called by the reader
LayerLoadArticleContent ==
    /\ LET read == clientGetCachedValue(lyClientCache, LayerKey, lyNow)
       IN  /\ lyClientCache' = read.cache
           /\ IF read.value # NoValue
              THEN /\ lyReturned' = [read.value EXCEPT !.at = lyNow]
                   /\ UNCHANGED <<lyClientInFlight, lyCall>>
              ELSE IF lyClientInFlight
              THEN UNCHANGED <<lyReturned, lyClientInFlight, lyCall>>
              ELSE /\ lyClientInFlight' = TRUE
                   /\ lyCall' = "request"
                   /\ UNCHANGED lyReturned
    /\ UNCHANGED <<lyNow, lyServerCache, lyServerRunning, lyResponse, lyTicks>>
    /\ UNCHANGED <<serverVars, cacheOpsVars, rankVars, uncachedVars, clientVars, scoreVars, contentVars, inboxVars, readerVars, feedVars, providerVars, listVars>>

\* fetchArticleContent on the server, up to the promise it returns: the state
\* of the server and what the caller gets at once (NoValue while it waits).
serverFetch(cache, running, t) ==
    LET read == getCachedValue(cache, LayerKey, t)
    IN  [cache |-> read.cache,
         running |-> running \/ read.value = NoValue,
         value |-> IF read.value = NoValue THEN NoValue
                   ELSE [read.value EXCEPT !.servedAt = t]]

\* The session's call reaches the server.
ServerActionArrives ==
    /\ lyCall = "request"
    /\ LET st == serverFetch(lyServerCache, lyServerRunning, lyNow)
       IN  /\ lyServerCache' = st.cache
           /\ lyServerRunning' = st.running
           /\ lyResponse' = st.value
           /\ lyCall' = IF st.value = NoValue THEN "waiting" ELSE "response"
    /\ UNCHANGED <<lyNow, lyClientCache, lyClientInFlight, lyReturned, lyTicks>>
    /\ UNCHANGED <<serverVars, cacheOpsVars, rankVars, uncachedVars, clientVars, scoreVars, contentVars, inboxVars, readerVars, feedVars, providerVars, listVars>>

\* Another session calls fetchArticleContent for the same article.
OtherSessionFetch ==
    /\ LET st == serverFetch(lyServerCache, lyServerRunning, lyNow)
       IN  /\ lyServerCache' = st.cache
           /\ lyServerRunning' = st.running
    /\ UNCHANGED <<lyNow, lyClientCache, lyClientInFlight, lyCall, lyResponse, lyReturned, lyTicks>>
    /\ UNCHANGED <<serverVars, cacheOpsVars, rankVars, uncachedVars, clientVars, scoreVars, contentVars, inboxVars, readerVars, feedVars, providerVars, listVars>>

\* fetchArticleContentUncached fulfils; the then and finally callbacks of
\* fetchArticleContent run, and the calls waiting for the request get the result.
PipelineFinishes(kind) ==
    /\ lyServerRunning
    /\ lyServerRunning' = FALSE
    /\ lyServerCache' = setCachedValue(lyServerCache, LayerKey, Produced(kind, lyNow),
                                       resultTtl(Produced(kind, lyNow)),
                                       ARTICLE_RESULT_CACHE_MAX_ENTRIES, lyNow)
    /\ IF lyCall = "waiting"
       THEN lyCall' = "response" /\ lyResponse' = Produced(kind, lyNow)
       ELSE UNCHANGED <<lyCall, lyResponse>>
    /\ UNCHANGED <<lyNow, lyClientCache, lyClientInFlight, lyReturned, lyTicks>>
    /\ UNCHANGED <<serverVars, cacheOpsVars, rankVars, uncachedVars, clientVars, scoreVars, contentVars, inboxVars, readerVars, feedVars, providerVars, listVars>>

\* The server action's promise fulfils in the session: the then callback of
\* loadArticleContent stores the result, the finally callback clears inFlight,
\* and the reader gets the result.
ResponseArrives ==
    /\ lyCall = "response"
    /\ LET result == [lyResponse EXCEPT !.receivedAt = lyNow]
       IN  /\ lyClientCache' = clientSetCachedValue(lyClientCache, LayerKey, result, lyNow)
           /\ lyReturned' = [result EXCEPT !.at = lyNow]
    /\ lyClientInFlight' = FALSE
    /\ lyCall' = "none"
    /\ lyResponse' = NoValue
    /\ UNCHANGED <<lyNow, lyServerCache, lyServerRunning, lyTicks>>
    /\ UNCHANGED <<serverVars, cacheOpsVars, rankVars, uncachedVars, clientVars, scoreVars, contentVars, inboxVars, readerVars, feedVars, providerVars, listVars>>

LayerTick(step) ==
    /\ lyTicks < MaxLayerTicks
    /\ lyNow' = lyNow + step
    /\ lyTicks' = lyTicks + 1
    /\ UNCHANGED <<lyServerCache, lyServerRunning, lyClientCache, lyClientInFlight, lyCall, lyResponse, lyReturned>>
    /\ UNCHANGED <<serverVars, cacheOpsVars, rankVars, uncachedVars, clientVars, scoreVars, contentVars, inboxVars, readerVars, feedVars, providerVars, listVars>>

LayerInit ==
    /\ ServerInit
    /\ CacheOpsIdle
    /\ RankIdle
    /\ UncachedIdle
    /\ ClientIdle
    /\ ScoreIdle
    /\ ContentIdle
    /\ InboxIdle
    /\ ReaderIdle
    /\ FeedIdle
    /\ LayerIdle
    /\ ProviderIdle
    /\ ListIdle

LayerNext ==
    \/ LayerLoadArticleContent
    \/ ServerActionArrives
    \/ OtherSessionFetch
    \/ \E kind \in PipelineOutcomes : PipelineFinishes(kind)
    \/ ResponseArrives
    \/ \E step \in LayerTickSteps : LayerTick(step)

SpecLayers == LayerInit /\ [][LayerNext]_vars

----------------------------------------------------------------------------
(* FeedProvider: customFeeds, customArticles, isLoadingCustom and the effect *)
(* that fetches the custom feeds' articles (SpecProvider).  A feed is its id; *)
(* an article is its sourceId and the effect run whose fetch returned it (0   *)
(* for the articles addFeed stamps).  A state change and the effect cleanup   *)
(* and run that its render brings are one step.                               *)

MaxProviderOps == 3

CustomFeedIds == {"c1", "c2"}
DefaultFeedIds == {"d1"}
StoredCustomFeeds == {<<>>, <<"c1">>}
FetchReplies == {"articles", "rejects"}

ProviderState(feeds, articles, loading, runs) ==
    [customFeeds |-> feeds, customArticles |-> articles, isLoadingCustom |-> loading,
     runs |-> runs]

\* The cleanup of the previous run of the effect: cancelled = true
cleanup(runs) == [r \in 1..Len(runs) |-> [runs[r] EXCEPT !.cancelled = TRUE]]

\* The body of the effect: nothing when not hydrated or without custom feeds,
\* else fetchCustomArticles() up to its first await.
effectBody(st, hydrated) ==
    IF ~hydrated \/ Len(st.customFeeds) = 0
    THEN st
    ELSE [st EXCEPT !.isLoadingCustom = TRUE,
                    !.runs = Append(st.runs, [sources |-> st.customFeeds,
                                              cancelled |-> FALSE,
                                              phase |-> "fetching"])]

\* A render in which isHydrated or customFeeds changed: cleanup, then the effect.
fetchEffect(st, hydrated) ==
    effectBody([st EXCEPT !.runs = cleanup(st.runs)], hydrated)

CurrentProvider ==
    ProviderState(pvCustomFeeds, pvCustomArticles, pvIsLoadingCustom, pvRuns)

ProviderBecomes(st) ==
    /\ pvCustomFeeds' = st.customFeeds
    /\ pvCustomArticles' = st.customArticles
    /\ pvIsLoadingCustom' = st.isLoadingCustom
    /\ pvRuns' = st.runs
    /\ UNCHANGED <<serverVars, cacheOpsVars, rankVars, uncachedVars, clientVars, scoreVars, contentVars, inboxVars, readerVars, feedVars, layerVars, listVars>>

\* useLocalStorage reads the stored custom feeds and sets isHydrated.
Hydrate(stored) ==
    /\ ~pvHydrated
    /\ pvHydrated' = TRUE
    /\ UNCHANGED pvOps
    /\ ProviderBecomes(fetchEffect([CurrentProvider EXCEPT !.customFeeds = stored], TRUE))

\* addFeed after the validation answered with a feed that is no duplicate
AddFeed(id) ==
    /\ pvHydrated
    /\ pvOps < MaxProviderOps
    /\ \A i \in 1..Len(pvCustomFeeds) : pvCustomFeeds[i] # id
    /\ pvOps' = pvOps + 1
    /\ UNCHANGED pvHydrated
    /\ ProviderBecomes(fetchEffect(
           [CurrentProvider EXCEPT
               !.customFeeds = Append(pvCustomFeeds, id),
               !.customArticles = pvCustomArticles \cup {[sourceId |-> id, run |-> 0, stale |-> FALSE]}],
           pvHydrated))

\* updateFeedPreferences: prev.map(...) is a new array in any case
UpdateFeedPreferences(id) ==
    /\ pvHydrated
    /\ pvOps < MaxProviderOps
    /\ pvOps' = pvOps + 1
    /\ UNCHANGED pvHydrated
    /\ ProviderBecomes(fetchEffect(CurrentProvider, pvHydrated))

\* removeFeed(feedId): a custom feed and its articles are dropped; a default
\* feed only goes to removedDefaultFeedIds, which the effect does not depend on.
RemoveFeed(id) ==
    /\ pvHydrated
    /\ pvOps < MaxProviderOps
    /\ pvOps' = pvOps + 1
    /\ UNCHANGED pvHydrated
    /\ IF \E i \in 1..Len(pvCustomFeeds) : pvCustomFeeds[i] = id
       THEN ProviderBecomes(fetchEffect(
                [CurrentProvider EXCEPT
                    !.customFeeds = SelectSeq(pvCustomFeeds, LAMBDA f : f # id),
                    !.customArticles = {a \in pvCustomArticles : a.sourceId # id}],
                pvHydrated))
       ELSE ProviderBecomes(CurrentProvider)

\* The fetch of run r settles: the rest of fetchCustomArticles.
FetchSettles(r, reply) ==
    /\ r \in 1..Len(pvRuns)
    /\ pvRuns[r].phase = "fetching"
    /\ UNCHANGED <<pvHydrated, pvOps>>
    /\ LET run == pvRuns[r]
           fetched == {[sourceId |-> run.sources[i], run |-> r, stale |-> run.cancelled] :
                          i \in 1..Len(run.sources)}
       IN  ProviderBecomes(ProviderState(
               pvCustomFeeds,
               IF reply = "articles" /\ ~run.cancelled THEN fetched ELSE pvCustomArticles,
               IF ~run.cancelled THEN FALSE ELSE pvIsLoadingCustom,
               [pvRuns EXCEPT ![r].phase = "settled"]))

ProviderInit ==
    /\ ServerInit
    /\ CacheOpsIdle
    /\ RankIdle
    /\ UncachedIdle
    /\ ClientIdle
    /\ ScoreIdle
    /\ ContentIdle
    /\ InboxIdle
    /\ ReaderIdle
    /\ FeedIdle
    /\ LayerIdle
    /\ ProviderIdle
    /\ ListIdle

ProviderNext ==
    \/ \E stored \in StoredCustomFeeds : Hydrate(stored)
    \/ \E id \in CustomFeedIds : AddFeed(id)
    \/ \E id \in CustomFeedIds : UpdateFeedPreferences(id)
    \/ \E id \in CustomFeedIds \cup DefaultFeedIds : RemoveFeed(id)
    \/ \E r \in 1..(MaxProviderOps + 1), reply \in FetchReplies : FetchSettles(r, reply)

SpecProvider == ProviderInit /\ [][ProviderNext]_vars

----------------------------------------------------------------------------
(* ArticleList: deleteArticle, undoDelete, the 5 s timer and the effect that *)
(* prunes read timestamps (SpecList).  A read key is a number; an object is  *)
(* the sequence of its entries in insertion order.  Time is counted in hours, *)
(* as in the ranking engine; the 5 seconds of the undo timer are less than   *)
(* one step of the clock.                                                    *)

MaxListOps == 3

DELETED_STORAGE_LIMIT == 5000

ListKeys == {1, 2}
\* Read yesterday, or one hour short of the archive threshold.
ReadTimes == {NowMs - DATE_MS_PER_DAY,
              NowMs - DEFAULT_READ_ARCHIVE_DAYS * DATE_MS_PER_DAY + 1}
ListTickSteps == {2}
SavedAt == NowMs - 1
NoPendingDelete == [key |-> 0]

\* Earlier deleted keys that no listed article has.
DeletedBefore(n) == [i \in 1..n |-> 10 + i]

ObjectsOver(values) ==
    {<<>>}
    \cup {<<[key |-> k, value |-> v]>> : k \in ListKeys, v \in values}
    \cup {<<[key |-> k[1], value |-> v], [key |-> k[2], value |-> w]>> :
             k \in {<<1, 2>>, <<2, 1>>}, v \in values, w \in values}

Includes(list, key) == \E i \in 1..Len(list) : list[i] = key

\* { ...object, [key]: value }
objectSet(object, key, value) ==
    IF MapHas(object, key)
    THEN [object EXCEPT ![IndexOf(object, key)].value = value]
    ELSE Append(object, [key |-> key, value |-> value])

objectGet(object, key) ==
    IF MapHas(object, key) THEN object[IndexOf(object, key)].value ELSE Undefined

slice(list, limit) == SubSeq(list, 1, Min(limit, Len(list)))

readDeleteThresholdMs(t) == t - DEFAULT_READ_ARCHIVE_DAYS * DATE_MS_PER_DAY

pruneReadTimestamps(timestampsByKey, t) ==
    SelectSeq(timestampsByKey, LAMBDA e : e.value >= readDeleteThresholdMs(t))

\* The effect on readArticlesStorage: read times older than the archive
\* threshold leave the read map and their keys join the deleted list.
pruneEffect(st, t) ==
    LET expired == SelectSeq(st.read, LAMBDA e : e.value < readDeleteThresholdMs(t))
        added == SelectSeq([i \in 1..Len(expired) |-> expired[i].key],
                           LAMBDA k : ~Includes(st.deleted, k))
    IN  [st EXCEPT
            !.deleted = IF added = <<>> THEN st.deleted
                        ELSE slice(st.deleted \o added, DELETED_STORAGE_LIMIT),
            !.read = pruneReadTimestamps(st.read, t)]

Stores(deleted, read, readLater) ==
    [deleted |-> deleted, read |-> read, readLater |-> readLater]

ListBecomes(st) ==
    /\ alDeleted' = st.deleted
    /\ alRead' = st.read
    /\ alReadLater' = st.readLater
    /\ UNCHANGED <<serverVars, cacheOpsVars, rankVars, uncachedVars, clientVars, scoreVars, contentVars, inboxVars, readerVars, feedVars, layerVars, providerVars>>

\* deleteArticle(article), for an article the list shows
DeleteArticle(key) ==
    /\ alOps < MaxListOps
    /\ ~Includes(alDeleted, key)
    /\ alOps' = alOps + 1
    /\ alPending' = [key |-> key, readAt |-> objectGet(alRead, key),
                     readLaterEntry |-> objectGet(alReadLater, key)]
    /\ alBefore' = [key |-> key, deleted |-> alDeleted, read |-> alRead,
                    readLater |-> alReadLater]
    /\ alPc' = "deleted"
    /\ UNCHANGED alNow
    /\ ListBecomes(pruneEffect(
           Stores(slice(<<key>> \o alDeleted, DELETED_STORAGE_LIMIT),
                  MapDelete(alRead, key),
                  MapDelete(alReadLater, key)),
           alNow))

\* undoDelete()
UndoDelete ==
    /\ alPending # NoPendingDelete
    /\ alPending' = NoPendingDelete
    /\ alPc' = "undone"
    /\ UNCHANGED <<alNow, alOps, alBefore>>
    /\ LET key == alPending.key
           restored ==
             Stores(SelectSeq(alDeleted, LAMBDA k : k # key),
                    IF alPending.readAt # Undefined
                    THEN objectSet(alRead, key, alPending.readAt)
                    ELSE alRead,
                    IF alPending.readLaterEntry # Undefined
                    THEN objectSet(alReadLater, key, alPending.readLaterEntry)
                    ELSE alReadLater)
       IN  ListBecomes(IF alPending.readAt # Undefined
                       THEN pruneEffect(restored, alNow)
                       ELSE restored)

\* The 5 s timer of the undo toast fires.
DeleteUndoTimeout ==
    /\ alPending # NoPendingDelete
    /\ alPending' = NoPendingDelete
    /\ alPc' = "idle"
    /\ UNCHANGED <<alNow, alOps, alBefore, alDeleted, alRead, alReadLater>>
    /\ UNCHANGED <<serverVars, cacheOpsVars, rankVars, uncachedVars, clientVars, scoreVars, contentVars, inboxVars, readerVars, feedVars, layerVars, providerVars>>

\* Time passes while the page stays open and no undo is pending.
ListTick(step) ==
    /\ alPending = NoPendingDelete
    /\ alOps < MaxListOps
    /\ alOps' = alOps + 1
    /\ alNow' = alNow + step
    /\ alPc' = "idle"
    /\ UNCHANGED <<alBefore, alPending, alDeleted, alRead, alReadLater>>
    /\ UNCHANGED <<serverVars, cacheOpsVars, rankVars, uncachedVars, clientVars, scoreVars, contentVars, inboxVars, readerVars, feedVars, layerVars, providerVars>>

\* The stores after hydration and the first run of the prune effect.
ListInit ==
    /\ ServerInit
    /\ CacheOpsIdle
    /\ RankIdle
    /\ UncachedIdle
    /\ ClientIdle
    /\ ScoreIdle
    /\ ContentIdle
    /\ InboxIdle
    /\ ReaderIdle
    /\ FeedIdle
    /\ LayerIdle
    /\ ProviderIdle
    /\ alNow = NowMs
    /\ alDeleted \in {DeletedBefore(n) : n \in {0, DELETED_STORAGE_LIMIT - 1, DELETED_STORAGE_LIMIT}}
    /\ alRead \in ObjectsOver(ReadTimes)
    /\ alReadLater \in ObjectsOver({SavedAt})
    /\ alPending = NoPendingDelete
    /\ alBefore = NoPendingDelete
    /\ alPc = "idle"
    /\ alOps = 0

ListNext ==
    \/ \E key \in ListKeys : DeleteArticle(key)
    \/ UndoDelete
    \/ DeleteUndoTimeout
    \/ \E step \in ListTickSteps : ListTick(step)

SpecList == ListInit /\ [][ListNext]_vars

----------------------------------------------------------------------------
(* Claims about request coalescing and the article-result cache (Spec) *)

\* C1: for any cache key at most one fetchArticleContentUncached is executing at
\* any time, and a call that arrives while a resolution for its key is in flight
\* starts no new one: it is handed that resolution's promise (or, once the
\* resolution has written the cache, its cached result) and ends with its result.
C1_SingleFlightPerKey ==
    /\ \A r1, r2 \in Rids :
          (/\ r1 # r2
           /\ resolutions[r1].stage = "running"
           /\ resolutions[r2].stage = "running")
          => resolutions[r1].key # resolutions[r2].key
    /\ \A c \in Callers :
          callers[c].sawInFlight # NoPromise =>
            /\ ~callers[c].hit => callers[c].promise = callers[c].sawInFlight
            /\ callers[c].state = "returned" =>
                  callers[c].result = resolutions[callers[c].sawInFlight].result

C1_Witness ==
    \E c, d \in Callers :
        /\ c # d
        /\ callers[c].state = "awaiting" /\ callers[d].state = "awaiting"
        /\ callers[c].key = callers[d].key
        /\ callers[d].sawInFlight # NoPromise
        /\ resolutions[callers[d].sawInFlight].stage = "running"

\* C2: callers whose calls for the same key were pending at the same time end
\* with the identical result (the same object: same outcome, same resolution).
C2_SameResultForConcurrentCallers ==
    \A p \in overlap :
        (callers[p[1]].state = "returned" /\ callers[p[2]].state = "returned")
        => /\ callers[p[1]].result = callers[p[2]].result
           /\ callers[p[1]].result # NoValue

C2_Witness ==
    \E p \in overlap :
        /\ callers[p[1]].state = "returned" /\ callers[p[2]].state = "returned"
        /\ IsError(callers[p[1]].result)

\* C3: a value returned from the article-result cache was written less than 30 s
\* ago if it is a failure and less than 5 min ago if it is a success; a call that
\* finds an expired entry for its key gets no cached value and starts a new
\* fetchArticleContentUncached.
C3_TtlRespected ==
    \A c \in Callers :
        /\ callers[c].hit =>
              IF IsError(callers[c].result)
              THEN callers[c].hitAge < 30 * 1000
              ELSE callers[c].hitAge < 5 * 60 * 1000
        /\ callers[c].sawExpired =>
              /\ ~callers[c].hit
              /\ callers[c].sawInFlight = NoPromise
              /\ callers[c].promise # NoPromise

C3_Witness ==
    \E c, d \in Callers :
        /\ callers[c].hit /\ callers[c].hitAge > 0
        /\ callers[d].sawExpired /\ callers[d].state = "awaiting"

----------------------------------------------------------------------------
(* Claims about the bounded caches (SpecCacheOps) *)

\* The entries of `before` that a write of `key` leaves in `after`, oldest first.
Survivors(before, key) == MapDelete(before, key)

\* C4: no cache ever holds more than its maximum number of entries (300 for the
\* server and client article caches, 20 for the feed cache), and a write removes
\* entries only when it has to, exactly as many as needed, oldest-inserted first:
\* what is left is the newest old entries in their order, then the written entry.
C4_BoundedOldestFirst ==
    /\ Len(opCache) <= (IF opKind = "feed" THEN 20 ELSE 300)
    /\ opLast.op = "set" =>
          LET old == Survivors(opBefore, opLast.key)
              removed == Len(old) + 1 - Len(opCache)
          IN  /\ removed >= 0
              /\ removed > 0 => Len(opCache) = (IF opKind = "feed" THEN 20 ELSE 300)
              /\ SubSeq(opCache, 1, Len(opCache) - 1) = SubSeq(old, removed + 1, Len(old))
              /\ opCache[Len(opCache)].key = opLast.key

C4_Witness ==
    /\ opLast.op = "set"
    /\ Len(opBefore) = MaxEntriesOf(opKind)
    /\ ~MapHas(opBefore, opLast.key)
    /\ ~MapHas(opCache, opBefore[1].key)
    /\ Len(opCache) = MaxEntriesOf(opKind)

----------------------------------------------------------------------------
(* Claims about the ranking engine (SpecRank) *)

KnownSource(article) == HasSource(Sources, article.sourceId)

\* The articles buildRankedCandidates lets through to scoring.
PassesGate(article) ==
    /\ KnownSource(article)
    /\ article.publishedAt # NaN
    /\ article.publishedAt <= NowMs

ScoreOf(article) ==
    scoreArticleForDeveloperFeed(article, SourceById(Sources, article.sourceId), NowMs)

OutputWithKey(key) == {j \in 1..Len(rkOut) : dedupeKey(rkOut[j]) = key}

\* o has the highest score of the group, and of those with that score the most
\* recent publishedAt.
BestOf(o, group) ==
    \A b \in group :
        \/ ScoreOf(o) > ScoreOf(b)
        \/ ScoreOf(o) = ScoreOf(b) /\ o.publishedAt >= b.publishedAt

\* C5 (as amended): when maxTotal is not given, among the input articles that
\* have a known source and a parseable publishedAt not in the future and that
\* share a deduplication key, rank returns exactly one, the one with the highest
\* score, ties on score broken by the more recent publishedAt, whatever the order
\* of the input.
C5_DedupKeepsBest ==
    (rkPc = "done" /\ rkMaxTotal = Undefined) =>
        \A i \in 1..Len(rkArticles) :
            PassesGate(rkArticles[i]) =>
                LET key == dedupeKey(rkArticles[i])
                    group == {rkArticles[k] : k \in
                                {k \in 1..Len(rkArticles) :
                                    /\ PassesGate(rkArticles[k])
                                    /\ dedupeKey(rkArticles[k]) = key}}
                IN  /\ Cardinality(OutputWithKey(key)) = 1
                    /\ \A j \in OutputWithKey(key) :
                          rkOut[j] \in group /\ BestOf(rkOut[j], group)

C5_Witness ==
    /\ rkPc = "done"
    /\ rkMaxTotal = Undefined
    /\ \E i, j, k \in 1..Len(rkArticles) :
          /\ i < j /\ j < k
          /\ PassesGate(rkArticles[i]) /\ PassesGate(rkArticles[j]) /\ PassesGate(rkArticles[k])
          /\ dedupeKey(rkArticles[i]) = dedupeKey(rkArticles[j])
          /\ dedupeKey(rkArticles[j]) = dedupeKey(rkArticles[k])
          /\ ScoreOf(rkArticles[i]) = ScoreOf(rkArticles[j])
          /\ rkArticles[j].publishedAt > rkArticles[i].publishedAt
          /\ ScoreOf(rkArticles[k]) > ScoreOf(rkArticles[j])
          /\ rkOut = <<rkArticles[k]>>

\* C5 as claimed: among input articles that share a deduplication key (two or
\* more articles of the input with one key), rank returns exactly one, the one
\* with the highest score (ties: the most recent).  An article of an unknown
\* source has no score and is not compared.
C5_Original ==
    rkPc = "done" =>
        \A i, i2 \in 1..Len(rkArticles) :
            (i # i2 /\ dedupeKey(rkArticles[i]) = dedupeKey(rkArticles[i2])) =>
                LET key == dedupeKey(rkArticles[i])
                    group == {rkArticles[k] : k \in
                                {k \in 1..Len(rkArticles) :
                                    /\ KnownSource(rkArticles[k])
                                    /\ dedupeKey(rkArticles[k]) = key}}
                IN  /\ Cardinality(OutputWithKey(key)) = 1
                    /\ \A j \in OutputWithKey(key) : BestOf(rkOut[j], group)

\* C6: no article of the output is older than its source's lookback window,
\* min(source.lookbackDays, FEED_LOOKBACK_DAYS) days.
C6_LookbackGate ==
    rkPc = "done" =>
        \A j \in 1..Len(rkOut) :
            NowMs - rkOut[j].publishedAt <=
                resolveLookbackDays(SourceById(Sources, rkOut[j].sourceId)) * DATE_MS_PER_DAY

\* C7: the output is sorted by publishedAt descending and, among articles with one
\* publishedAt, by score descending.
C7_SortedByTimeThenScore ==
    rkPc = "done" =>
        \A j \in 1..(Len(rkOut) - 1) :
            \/ rkOut[j].publishedAt > rkOut[j + 1].publishedAt
            \/ /\ rkOut[j].publishedAt = rkOut[j + 1].publishedAt
               /\ ScoreOf(rkOut[j]) >= ScoreOf(rkOut[j + 1])

C7_Witness ==
    /\ rkPc = "done"
    /\ \E j \in 1..(Len(rkOut) - 1), i, k \in 1..Len(rkArticles) :
          /\ rkOut[j].publishedAt = rkOut[j + 1].publishedAt
          /\ ScoreOf(rkOut[j]) > ScoreOf(rkOut[j + 1])
          /\ i < k
          /\ rkArticles[i] = rkOut[j + 1]
          /\ rkArticles[k] = rkOut[j]
    /\ \E j \in 1..(Len(rkOut) - 1) : rkOut[j].publishedAt > rkOut[j + 1].publishedAt

----------------------------------------------------------------------------
(* Claims about one resolution (SpecUncached) *)

Target == normalizeComparableUrl(articleUrl)

PrimaryFailed == failure.stage # "none"

\* The item's link or guid normalizes to the target URL.
LinksToTarget(item) ==
    /\ Target.valid
    /\ \/ normalizeComparableUrl(item.link) = Target
       \/ normalizeComparableUrl(item.guid) = Target

\* The feed parsed, and the first of its items that links to the target has
\* embedded content that is still non-empty after sanitizing and stripping.
FirstMatchUsable(feed) ==
    /\ feed.parse = "ok"
    /\ \E i \in 1..Len(feed.items) :
          /\ LinksToTarget(feed.items[i])
          /\ \A j \in 1..(i - 1) : ~LinksToTarget(feed.items[j])
          /\ resolveFeedItemContent(feed.items[i]).rawContent \notin {"none", "script"}

\* C8 (amended): when the primary fetch fails (non-2xx, a thrown error, a
\* timeout) or extraction yields no content, and some candidate feed parses and
\* the first of its items whose link or guid normalizes to the target URL has
\* embedded content that stays non-empty after sanitizing, the call returns a
\* success result with contentMode "summary" or "full", never a failure.
C8_FallbackSuccess ==
    (/\ uncachedPc = "done"
     /\ PrimaryFailed
     /\ \E i \in 1..Len(parsedFeeds) : FirstMatchUsable(parsedFeeds[i]))
    => /\ uncachedResult.kind = "success"
       /\ uncachedResult.contentMode \in {"summary", "full"}

\* The primary fetch returned HTTP 500 and the fallback found the article in a
\* feed, in summary mode.
C8_Witness ==
    /\ uncachedPc = "done"
    /\ failure.stage = "http" /\ failure.status = 500
    /\ \E i \in 1..Len(parsedFeeds) : FirstMatchUsable(parsedFeeds[i])
    /\ uncachedResult.kind = "success"
    /\ uncachedResult.via = "fallback"
    /\ uncachedResult.contentMode = "summary"

\* C8 as claimed: when the primary fetch fails or extraction yields no content,
\* and some candidate feed contains an item whose link or guid normalizes to
\* the target URL and carries non-empty embedded content, the call returns a
\* success result with contentMode "summary" or "full", never a failure.
C8_Original ==
    (/\ uncachedPc = "done"
     /\ PrimaryFailed
     /\ \E i \in 1..Len(parsedFeeds) :
           /\ parsedFeeds[i].parse = "ok"
           /\ \E k \in 1..Len(parsedFeeds[i].items) :
                 /\ LinksToTarget(parsedFeeds[i].items[k])
                 /\ resolveFeedItemContent(parsedFeeds[i].items[k]).rawContent # "none")
    => /\ uncachedResult.kind = "success"
       /\ uncachedResult.contentMode \in {"summary", "full"}

\* C9: the call returns a failure result only after getFallbackFromFeed has been
\* called for it and returned null: a failing stage is recorded, the fallback
\* returned null, and no feed it parsed gave usable content.
C9_FailureOnlyAfterFallback ==
    uncachedResult.kind = "error"
    => /\ uncachedPc = "done"
       /\ PrimaryFailed
       /\ fallbackReturn = "null"
       /\ \A i \in 1..Len(parsedFeeds) : ~fallbackFromFeed(parsedFeeds[i], Target).found

\* Extraction found no content, the fallback parsed a feed, found nothing usable
\* and the call failed.
C9_Witness ==
    /\ uncachedResult.kind = "error"
    /\ uncachedResult.reason = "Could not extract article content"
    /\ fallbackReturn = "null"
    /\ Len(parsedFeeds) >= 1

TimedOutReason == uncachedResult.reason = "Request timed out"

\* C10 (amended): when the 15-second timer aborts the first fetch, a
\* trailing-slash retry made after the first fetch threw, or the read of the
\* body, and the fallback yields nothing, the failure reason is "Request timed
\* out"; when it aborts the trailing-slash retry of a non-OK first response, the
\* reason is that response's HTTP status; no failure without an aborted request
\* has the reason "Request timed out", and no aborted request gives the generic
\* unexpected-error reason.
C10_TimeoutReason ==
    uncachedResult.kind = "error"
    => /\ (\/ abortedRequest \in {"fetch", "text"}
           \/ (abortedRequest = "retry" /\ initialAttempt.kind = "throws"))
          => TimedOutReason
       /\ (abortedRequest = "retry" /\ initialAttempt.kind = "response")
          => /\ uncachedResult.reason = "Failed to fetch article (HTTP status)"
             /\ uncachedResult.status = initialAttempt.status
       /\ abortedRequest = "none" => ~TimedOutReason
       /\ abortedRequest # "none"
          => uncachedResult.reason #
                "An unexpected error occurred while fetching the article"

\* The first fetch was still pending after 15 s, was aborted, the fallback
\* parsed a feed and found nothing, and the call failed with the timeout reason.
C10_Witness ==
    /\ uncachedResult.kind = "error"
    /\ abortedRequest = "fetch"
    /\ elapsedMs >= FETCH_TIMEOUT_MS
    /\ Len(parsedFeeds) >= 1
    /\ TimedOutReason

\* C10 as claimed: when the primary fetch exceeds the 15-second budget and the
\* request is aborted, and the fallback yields nothing, the reason is "Request
\* timed out"; no failure without a timeout has that reason, and no timeout
\* gives the generic or the HTTP-status reason.
C10_Original ==
    uncachedResult.kind = "error"
    => /\ abortedRequest # "none" => TimedOutReason
       /\ abortedRequest = "none" => ~TimedOutReason

FetchUrl == normalizeArticleUrlForFetch(articleUrl)

RetryReturned == uncachedPc \in {"text", "fallback", "done"}

\* C11 as claimed: if the first fetch fails (non-OK response or thrown error),
\* fetchWithTrailingSlashRetry retries exactly once against the trailing-slash
\* URL, never when the path already ends in "/", and its outcome is whichever
\* response succeeded, or else the original failure of the first attempt: a
\* non-OK response it returns is the first attempt's response.
C11_RetryOutcome ==
    RetryReturned
    => /\ retryCount <= 1
       /\ retryCount = 1 <=> (~IsOk(initialAttempt) /\ FetchUrl.valid /\ ~FetchUrl.slash)
       /\ IsOk(initialAttempt) => primaryResponse = initialAttempt
       /\ (primaryResponse.kind = "response" /\ ~IsOk(primaryResponse))
          => primaryResponse = initialAttempt

\* The feed item the fallback took its content from: the first item of the last
\* parsed feed that links to the target.
MatchedItem ==
    LET feed == parsedFeeds[Len(parsedFeeds)]
    IN  feed.items[findMatchedItem(feed.items, Target)]

FromFallback ==
    uncachedPc = "done" /\ uncachedResult.kind = "success" /\ uncachedResult.via = "fallback"

----------------------------------------------------------------------------
(* Claims about completion of a resolution (SpecLive) *)

CachedUnder(cache, key, value) ==
    /\ MapHas(cache, key)
    /\ cache[IndexOf(cache, key)].value = value

\* C12: every resolution that is started eventually runs to completion; the
\* step that completes its then callback leaves its outcome in the
\* article-result cache under its key, and the step that completes it leaves
\* no in-flight entry for its key, whether or not a caller still awaits it.
C12_RunsToCompletion ==
    /\ \A r \in Rids : (resolutions[r].stage = "running") ~> (resolutions[r].stage = "done")
    /\ [][\A r \in Rids :
            /\ (resolutions[r].stage = "settled" /\ resolutions'[r].stage # "settled")
               => /\ resolutions'[r].stage = "cached"
                  /\ CachedUnder(articleResultCache', resolutions[r].key,
                                 resolutions[r].result)
            /\ (resolutions[r].stage = "cached" /\ resolutions'[r].stage # "cached")
               => /\ resolutions'[r].stage = "done"
                  /\ articleResultInFlight'[resolutions[r].key] = NoPromise
            /\ (resolutions[r].stage = "running" /\ resolutions'[r].stage # "running")
               => resolutions'[r].stage = "settled"]_vars

\* A resolution has completed and is cached although its only caller went away
\* while it was running.
C12_Witness ==
    \E r \in Rids :
        /\ resolutions[r].stage = "done"
        /\ CachedUnder(articleResultCache, resolutions[r].key, resolutions[r].result)
        /\ articleResultInFlight[resolutions[r].key] = NoPromise
        /\ \A c \in Callers : callers[c].state \in {"idle", "abandoned"}

----------------------------------------------------------------------------
(* Claims about the client cache module (SpecClient) *)

SpeculativeInFlight == {k \in ClientKeys : clientInFlight[k] = "prefetch"}

\* C13 as claimed: at most two resolutions started by a prefetch are in flight
\* on the client at any time.
C13_AtMostTwoPrefetches == Cardinality(SpeculativeInFlight) <= 2

\* C14: no prefetchArticleContent call surfaces a failure: when the request it
\* waited for settles, with a content result, an error result or a rejection,
\* its promise ends resolved or with the rejection swallowed, never rejected.
C14_PrefetchSwallowsFailures ==
    \A s \in settledCalls :
        s.call.kind = "prefetch" => s.state \in {"resolved", "swallowed"}

\* The server action rejected while a prefetch and the reader were waiting for
\* it: the reader's promise rejected, the prefetch's rejection was swallowed.
C14_Witness ==
    /\ [call |-> [kind |-> "prefetch", key |-> "a1"], state |-> "swallowed"] \in settledCalls
    /\ [call |-> [kind |-> "load", key |-> "a1"], state |-> "rejected"] \in settledCalls

----------------------------------------------------------------------------
(* More claims about the rank engine (SpecRank) *)

Unlimited == rankAndFilterArticlesForDeveloperFeed(rkArticles, Sources, NowMs, Undefined)

Prefix(seq, k) == SubSeq(seq, 1, Min(k, Len(seq)))

\* C15: rank with maxTotal = k (k >= 0) returns exactly the first k elements of
\* what rank returns without maxTotal on the same articles, sources and now.
C15_PrefixOfUnlimited ==
    rkPc = "done"
    => /\ rkMaxTotal >= 0 => rkOut = Prefix(Unlimited, rkMaxTotal)
       /\ rkMaxTotal = Undefined
          => \A k \in {0, 1} :
                rankAndFilterArticlesForDeveloperFeed(rkArticles, Sources, NowMs, k)
                    = Prefix(rkOut, k)

\* Three articles survive the gate and deduplication; maxTotal = 2 cut the last.
C15_Witness ==
    /\ rkPc = "done"
    /\ rkMaxTotal = 2
    /\ Len(Unlimited) = 3
    /\ rkOut = <<Unlimited[1], Unlimited[2]>>

\* C16: every article rank returns has the id of a given source as its sourceId
\* and a publishedAt that parses to a time not later than now, and the articles
\* that fail this are dropped one by one: the result is the one rank gives for
\* the input without them.
C16_GateDropsIndividually ==
    rkPc = "done"
    => /\ \A j \in 1..Len(rkOut) :
             /\ \E i \in 1..Len(Sources) : Sources[i].id = rkOut[j].sourceId
             /\ rkOut[j].publishedAt # NaN
             /\ rkOut[j].publishedAt <= NowMs
       /\ rkOut = rankAndFilterArticlesForDeveloperFeed(
                      SelectSeq(rkArticles, PassesGate), Sources, NowMs, rkMaxTotal)

\* An article of an unknown source, one dated in the future and a good one went
\* in; the good one alone came out.
C16_Witness ==
    /\ rkPc = "done"
    /\ Len(rkArticles) = 3
    /\ \E i, j, k \in 1..3 :
          /\ ~KnownSource(rkArticles[i])
          /\ KnownSource(rkArticles[j]) /\ rkArticles[j].publishedAt > NowMs
          /\ PassesGate(rkArticles[k])
          /\ rkOut = <<rkArticles[k]>>

----------------------------------------------------------------------------
(* Claims about the score (SpecScore) *)

InRange(value, min, max) == value >= min /\ value <= max

PartsSum ==
    scParts.recency
      + ScoreScale * (scParts.priority + scParts.category + scParts.readTime
                      + scParts.trend + scParts.noise)

\* C17, as stated: for every article, source and now the score lies in [0,100].
C17_Original ==
    scPc = "done" => InRange(scScore, 0, 100 * ScoreScale)

\* C17: for an article whose publishedAt parses, the score is the sum of the
\* recency, source-priority, category-match, reading-time, trend-boost and
\* title-noise components clamped to [0,100], with recency in [0,40], priority
\* in [0,20], category match in [-10,15] and noise penalty in [-20,0]; for an
\* article whose publishedAt does not parse the score is -999.
C17_ScoreClamped ==
    scPc = "done"
    => IF scArticle.publishedAt = NaN
       THEN scScore = -999 * ScoreScale
       ELSE /\ scScore = clamp(PartsSum, 0, 100 * ScoreScale)
            /\ InRange(scScore, 0, 100 * ScoreScale)
            /\ InRange(scParts.recency, 0, 40 * ScoreScale)
            /\ InRange(scParts.priority, 0, 20)
            /\ InRange(scParts.category, -10, 15)
            /\ InRange(scParts.noise, -20, 0)

\* A dated article whose components add up to less than zero scored 0, with a
\* priority configured above 20 counted as 20 and category terms below -10 as -10.
C17_Witness ==
    /\ scPc = "done"
    /\ scArticle.publishedAt # NaN
    /\ PartsSum < 0
    /\ scScore = 0
    /\ scSource.priority = 25 /\ scParts.priority = 20
    /\ scSource.hasInclude /\ ~scArticle.catInInclude /\ scArticle.negHits = 4
    /\ scParts.category = -10

----------------------------------------------------------------------------
(* Claims about the rendering transform (SpecContent) *)

\* The words of every string in a React node and below it.
RECURSIVE WordsIn(_)
WordsIn(node) ==
    {node.text[i] : i \in 1..Len(node.text)}
        \cup UNION {WordsIn(node.children[i]) : i \in 1..Len(node.children)}

\* The tags of every element in a React node and below it.
RECURSIVE TagsIn(_)
TagsIn(node) ==
    (IF node.kind = "element" THEN {node.tag} ELSE {})
        \cup UNION {TagsIn(node.children[i]) : i \in 1..Len(node.children)}

\* In the documents, "x" is the text of the script and style elements only.
ScriptText == "x"

\* C18: where DOMParser is defined, the nodes returned hold no script or style
\* element and no text that was inside a script or style element.
C18_NoScriptContent ==
    contentPc = "done" /\ domParser
    => \A i \in 1..Len(contentNodes) :
          /\ TagsIn(contentNodes[i]) \cap {"script", "style"} = {}
          /\ ScriptText \notin WordsIn(contentNodes[i])

\* A whitespace-only string that renders as a direct child of a table
\* structural element; the children of a fragment render in its place.
RECURSIVE HasStructuralWhitespace(_, _)
HasStructuralWhitespace(node, parentTag) ==
    \/ node.kind = "string" /\ Trim(node.text) = <<>> /\ parentTag \in TABLE_STRUCTURE_TAGS
    \/ \E i \in 1..Len(node.children) :
          HasStructuralWhitespace(node.children[i],
                                  IF node.kind = "element" THEN node.tag ELSE parentTag)

\* C19: where the DOM walk produced the nodes, no whitespace-only text is a
\* direct child of table, thead, tbody, tfoot, tr or colgroup.
C19_NoStructuralWhitespace ==
    contentPc = "done" /\ domParser
    => \A i \in 1..Len(contentNodes) : ~HasStructuralWhitespace(contentNodes[i], "body")

\* C20: a document of a blockquote and the sibling that passes the tests of
\* the heuristic renders as the blockquote alone, whose last child is the
\* sibling's element carrying data-quote-owner.
C20_OwnerRelocatedAndFlagged ==
    /\ contentPc = "done" /\ domParser
    /\ Len(html) = 2
    /\ html[1].tag = "blockquote" /\ html[2].nodeType = 1
    /\ movesQuoteOwner(html[1], html[2])
    => /\ Len(contentNodes) = 1
       /\ contentNodes[1].tag = "blockquote"
       /\ LET children == contentNodes[1].children
              last == children[Len(children)]
          IN  /\ last.kind = "element"
              /\ last.tag = html[2].tag
              /\ "data-quote-owner" \in last.props

\* A text node with something other than white space, outside script and style.
RECURSIVE HasVisibleText(_)
HasVisibleText(nodes) ==
    \E i \in 1..Len(nodes) :
        \/ nodes[i].nodeType = 3 /\ Trim(nodes[i].text) # <<>>
        \/ /\ nodes[i].nodeType = 1
           /\ nodes[i].tag \notin {"script", "style"}
           /\ HasVisibleText(nodes[i].childNodes)

\* The words of the paragraphs, in order.
RECURSIVE ParagraphWords(_)
ParagraphWords(nodes) ==
    IF nodes = <<>> THEN <<>>
    ELSE Words(Head(nodes).children[1].text) \o ParagraphWords(Tail(nodes))

\* One p element per block: a single string, trimmed, with no blank line in it.
IsParagraphOf(node) ==
    /\ node.kind = "element" /\ node.tag = "p" /\ Len(node.children) = 1
    /\ LET text == node.children[1].text
       IN  /\ node.children[1].kind = "string"
           /\ Trim(text) = text
           /\ \A i \in 1..(Len(text) - 1) : ~(text[i] = "\n" /\ text[i + 1] = "\n")

WalkOf(markup) ==
    LET body == bodyAfterMove(markup)
    IN  [i \in 1..Len(body) |-> toReactNode(body[i], "body", FALSE)]

NothingVisible(nodes) ==
    \A i \in 1..Len(nodes) :
        nodes[i].kind = "null" \/ (nodes[i].kind = "string" /\ Trim(nodes[i].text) = <<>>)

----------------------------------------------------------------------------
(* Claims about the inbox limits (SpecInbox) *)

\* sub is seq with some elements left out, the others in their order.
RECURSIVE IsSubsequence(_, _)
IsSubsequence(sub, seq) ==
    IF sub = <<>> THEN TRUE
    ELSE IF seq = <<>> THEN FALSE
    ELSE IF Head(sub) = Head(seq) THEN IsSubsequence(Tail(sub), Tail(seq))
    ELSE IsSubsequence(sub, Tail(seq))

UnreadOf(articles, sourceIds) ==
    Cardinality({i \in 1..Len(articles) :
                    /\ articles[i].sourceId \in sourceIds
                    /\ readTimestampsByKey[articles[i].key] = Undefined})

TotalLimit ==
    IF ibUnreadTotalLimit = Undefined THEN DEFAULT_UNREAD_TOTAL_LIMIT ELSE ibUnreadTotalLimit

\* C23: the result is an order-preserving subsequence of the ranked input; per
\* source it holds at most that source's limit of unread articles
\* (maxUnreadVisible, else the tier default), in total at most unreadTotalLimit
\* unread articles, and with includeRead false no read article.
C23_InboxLimits ==
    ibPc = "done"
    => /\ IsSubsequence(ibOut, ibArticles)
       /\ UnreadOf(ibOut, {"solo"}) <= 1
       /\ UnreadOf(ibOut, {"explore"}) <= 2
       /\ UnreadOf(ibOut, {"explore", "solo", "ghost"}) <= TotalLimit
       /\ ~ibIncludeRead
          => \A i \in 1..Len(ibOut) : readTimestampsByKey[ibOut[i].key] = Undefined

\* Three unread articles of the explore source went in and two came out, the
\* total limit not being the reason.
C23_Witness ==
    /\ ibPc = "done"
    /\ ibUnreadTotalLimit = Undefined
    /\ UnreadOf(ibArticles, {"explore"}) = 3
    /\ UnreadOf(ibOut, {"explore"}) = 2

----------------------------------------------------------------------------
(* Claims about the reader (SpecReader) *)

Displayed == displayedContent(rdResolved, rdArticle)

\* The run of the load effect for the current selection.
CurrentRun == rdEffects[Len(rdEffects)]

\* C24: while no resolution has produced a result for the selected article the
\* reader shows the loading state; what it displays as content was resolved
\* for the selected article, never for one selected before.
C24_LoadingAndNoStaleContent ==
    rdArticle # ""
    => /\ rdArticle \notin rdProduced => isLoading(rdResolved, rdArticle)
       /\ Displayed # NoResolved => Displayed.for = rdArticle
       /\ CurrentRun.promise \in {"content", "error"}
          => Displayed.for = rdArticle /\ Displayed.kind = CurrentRun.promise

\* The result for a1 arrived after the user had switched to a2, whose own
\* resolution is still pending: the reader shows the loading state.
C24_Witness ==
    /\ rdArticle = "a2"
    /\ Len(rdEffects) = 2
    /\ rdEffects[1].link = "a1" /\ rdEffects[1].stale /\ rdEffects[1].promise = "content"
    /\ rdEffects[2].promise = "pending"
    /\ isLoading(rdResolved, rdArticle)
    /\ Displayed = NoResolved

----------------------------------------------------------------------------
(* Claims about the feed cache and in-flight feed parses (SpecFeed) *)

Unsettled(feedUrl) ==
    {r \in 1..Len(fpRequests) :
        fpRequests[r].url = feedUrl /\ fpRequests[r].phase # "settled"}

FreshParses(feedUrl) ==
    {r \in 1..Len(fpRequests) :
        /\ fpRequests[r].url = feedUrl
        /\ fpRequests[r].cachedAt # Null
        /\ fpNow < fpRequests[r].cachedAt + FEED_CACHE_TTL_MS}

CachedRids == {feedCache[i].value.rid : i \in 1..Len(feedCache)}

\* Feed parsing is coalesced and TTL-cached per feed URL. At most one
\* parseURL request per feed URL is unsettled and feedInFlight names exactly
\* that request; every call that did not hit the cache holds a request for its
\* own URL, so calls for any article share it; once a parse has been cached,
\* reads of its URL hit the cache (and no new parse can start) until 5 minutes
\* after it was cached and never later; a rejected parse is never cached, and
\* a settled request is no longer in feedInFlight.
FeedParseState ==
    /\ \A u \in FeedUrls :
          /\ Cardinality(Unsettled(u)) <= 1
          /\ feedInFlight[u] = (IF Unsettled(u) = {} THEN NoPromise
                                ELSE CHOOSE r \in Unsettled(u) : TRUE)
          /\ (FreshParses(u) # {}) <=> (getCachedValue(feedCache, u, fpNow).value # NoValue)
          /\ FreshParses(u) # {} =>
                getCachedValue(feedCache, u, fpNow).value.rid \in FreshParses(u)
    /\ \A c \in fpCalls :
          /\ c.rid \in 1..Len(fpRequests)
          /\ fpRequests[c.rid].url = c.url
          /\ c.via = "cache" => fpRequests[c.rid].outcome = "fulfilled"
    /\ \A r \in 1..Len(fpRequests) :
          /\ fpRequests[r].outcome = "rejected" =>
                /\ fpRequests[r].cachedAt = Null
                /\ r \notin CachedRids
          /\ fpRequests[r].phase = "settled" => feedInFlight[fpRequests[r].url] # r

----------------------------------------------------------------------------
(* Claims about ranking a ranked list again (SpecRank) *)

\* C26: ranking is idempotent for a fixed now and source list: ranking the
\* output of rankAndFilterArticlesForDeveloperFeed again, with the same
\* maxTotal or with none, returns the same articles in the same order.
C26_RankIdempotent ==
    rkPc = "done" =>
        \A maxTotal \in {rkMaxTotal, Undefined} :
            rankAndFilterArticlesForDeveloperFeed(rkOut, Sources, NowMs, maxTotal) = rkOut

\* The first ranking dropped a duplicate and reordered the rest, and two of the
\* articles it returned tie on both date and score.
C26_Witness ==
    /\ rkPc = "done"
    /\ Len(rkArticles) = 3
    /\ Len(rkOut) = 2
    /\ rkOut[1] # rkArticles[1]
    /\ rkOut[1].publishedAt = rkOut[2].publishedAt
    /\ scoreArticleForDeveloperFeed(rkOut[1], SourceById(Sources, rkOut[1].sourceId), NowMs)
         = scoreArticleForDeveloperFeed(rkOut[2], SourceById(Sources, rkOut[2].sourceId), NowMs)

----------------------------------------------------------------------------
(* Claims about a rejected server action in the client cache (SpecClient) *)

Rejections == {s \in settledCalls : s.state \in {"rejected", "swallowed"}}

\* C27: when the fetchArticleContent call behind loadArticleContent rejects,
\* nothing is written to the client cache for its key and the in-flight entry
\* of the key is removed, so that the next loadArticleContent for the key
\* starts a request of its own and waits for it; and the in-flight map only
\* ever holds keys whose request some call is still waiting for.
C27_RejectionLeavesNothingBehind ==
    /\ \A s \in Rejections :
          LET key == s.call.key
              next == loadArticleContent(CurrentClient, "load", key)
          IN  /\ ~MapHas(articleCache, key)
              /\ clientInFlight[key] = "none"
              /\ next.inFlight[key] = "load"
              /\ [kind |-> "load", key |-> key] \in next.pending
              /\ next.settled = {}
    /\ \A s \in settledCalls : clientInFlight[s.call.key] = "none"
    /\ \A key \in ClientKeys :
          clientInFlight[key] # "none" <=> \E c \in pendingCalls : c.key = key

\* A request shared by the reader and a prefetch has rejected: the reader's
\* promise rejected and the prefetch swallowed it.
C27_Witness ==
    \E s \in Rejections, t \in Rejections :
        /\ s.call.key = t.call.key
        /\ s.state = "rejected"
        /\ t.state = "swallowed"

----------------------------------------------------------------------------
(* Claims about the age of a result that passed both caches (SpecLayers) *)

TtlOf(value) ==
    IF IsError(value) THEN ARTICLE_ERROR_CACHE_TTL_MS ELSE ARTICLE_RESULT_CACHE_TTL_MS

\* C28 as stated: a result returned to the reader was produced by a pipeline
\* execution that finished at most 30 seconds earlier if it is a failure and
\* at most 5 minutes earlier if it is a success.
C28_Original ==
    lyReturned # NoValue => lyReturned.at - lyReturned.producedAt <= TtlOf(lyReturned)

\* C28: each cache keeps its own time limit.  A result returned to the reader
\* was returned by the server less than 30 seconds (failure) or 5 minutes
\* (success) after the pipeline produced it, and is returned by the client less
\* than 30 seconds or 5 minutes after the session received it; the reception
\* is not earlier than the server's return.
C28_EachCacheKeepsItsTtl ==
    lyReturned # NoValue =>
        /\ lyReturned.servedAt - lyReturned.producedAt < TtlOf(lyReturned)
        /\ lyReturned.at - lyReturned.receivedAt < TtlOf(lyReturned)
        /\ lyReturned.producedAt <= lyReturned.servedAt
        /\ lyReturned.servedAt <= lyReturned.receivedAt
        /\ lyReturned.receivedAt <= lyReturned.at

\* The reader got a failure out of the client cache that the server had taken
\* out of its own cache, more than 30 seconds after the pipeline produced it.
C28_Witness ==
    /\ lyReturned # NoValue
    /\ IsError(lyReturned)
    /\ lyReturned.servedAt > lyReturned.producedAt
    /\ lyReturned.at > lyReturned.receivedAt
    /\ lyReturned.at - lyReturned.producedAt > ARTICLE_ERROR_CACHE_TTL_MS

----------------------------------------------------------------------------
(* Claims about FeedProvider's loading flag (SpecProvider) *)

AllFetchesSettled == \A r \in 1..Len(pvRuns) : pvRuns[r].phase = "settled"

\* C29: after any sequence of adding and removing custom feeds, once every
\* started custom-feed fetch has settled isLoadingCustom is false, and no
\* article in customArticles was stored by a fetch that was cancelled.
C29_LoadingEndsAndNoStaleArticles ==
    /\ AllFetchesSettled => ~pvIsLoadingCustom
    /\ \A a \in pvCustomArticles : ~a.stale

----------------------------------------------------------------------------
(* Claims about undoing a delete (SpecList) *)

Entries(object) == {object[i] : i \in 1..Len(object)}

KeysOf(list) == {list[i] : i \in 1..Len(list)}

\* The keys whose read time, before the delete, was older than the archive
\* threshold.
ExpiredBefore ==
    {e.key : e \in {x \in Entries(alBefore.read) : x.value < readDeleteThresholdMs(alNow)}}

\* C30: after a delete and its undo, the deleted-key list, the read-timestamp
\* map and the bookmark map are what they were before the delete.
C30_UndoRestoresStores ==
    alPc = "undone" =>
        /\ alDeleted = alBefore.deleted
        /\ Entries(alRead) = Entries(alBefore.read)
        /\ Entries(alReadLater) = Entries(alBefore.readLater)

\* What undo does restore: the bookmark map is what it was before the delete;
\* the read-timestamp map is what it was, less the read times older than the
\* archive threshold, which the prune effect takes out; the deleted-key list
\* holds only keys it held before and keys of such read times, does not hold
\* the undone key unless its own read time is one of them, and is exactly what
\* it was when no read time was that old and the list held fewer than 5000
\* keys.
UndoRestoresUpToPruningAndLimit ==
    alPc = "undone" =>
        /\ Entries(alReadLater) = Entries(alBefore.readLater)
        /\ Entries(alRead) =
             {e \in Entries(alBefore.read) : e.value >= readDeleteThresholdMs(alNow)}
        /\ KeysOf(alDeleted) \subseteq KeysOf(alBefore.deleted) \cup ExpiredBefore
        /\ alBefore.key \in KeysOf(alDeleted) => alBefore.key \in ExpiredBefore
        /\ (ExpiredBefore = {} /\ Len(alBefore.deleted) < DELETED_STORAGE_LIMIT) =>
              /\ alDeleted = alBefore.deleted
              /\ Entries(alRead) = Entries(alBefore.read)

\* A read and bookmarked article was deleted and the delete undone, with
\* earlier deletions in the list, and all three stores are as before.
UndoRestoredEverything ==
    /\ alPc = "undone"
    /\ MapHas(alBefore.read, alBefore.key)
    /\ MapHas(alBefore.readLater, alBefore.key)
    /\ Len(alBefore.deleted) = DELETED_STORAGE_LIMIT - 1
    /\ alDeleted = alBefore.deleted
    /\ objectGet(alRead, alBefore.key) = objectGet(alBefore.read, alBefore.key)
    /\ objectGet(alReadLater, alBefore.key) = SavedAt

====
